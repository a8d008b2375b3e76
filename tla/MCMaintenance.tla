---------------------------- MODULE MCMaintenance ----------------------------
(* Small instances of the builder and of the pipeline: two assets, two     *)
(* conversations, messages 1..2 and two versions of the chat database; the *)
(* second version has lost the second conversation.                        *)
EXTENDS MaintenancePipeline

CONSTANTS a1, a2, t1, t2

MCAssets == {a1, a2}
MCTables == {t1, t2}
MCChatTables == {<<1, t1>>, <<1, t2>>, <<2, t1>>}
MCMessages == {<<1, t1, 1>>, <<1, t1, 2>>, <<1, t2, 1>>, <<2, t1, 1>>}
MCPlain == {<<1, t1, 1, a1>>, <<1, t1, 2, a2>>, <<2, t1, 1, a2>>}
MCForwarded == {<<1, t1, 1, a2>>, <<1, t2, 1, a1>>}
=============================================================================
