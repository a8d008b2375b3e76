---------------------------- MODULE MCInfoStreams ----------------------------
(***************************************************************************)
(* Compound files of ten sectors: two sound ones, one whose table of       *)
(* sectors is reached through a chain that never ends, one with names that *)
(* are also folders or become the same, and damaged ones.                  *)
(***************************************************************************)
EXTENDS InfoStreams

Dir(name, typ, left, right, child, start, size) ==
  [name |-> name, typ |-> typ, left |-> left, right |-> right, child |-> child,
   start |-> start, size |-> size]
Leaf(name, right, start, size) == Dir(name, "stream", None, right, None, start, size)

Text(name, texts) == [name |-> name, texts |-> texts]
Says(sector, half, entries) == [cell |-> <<sector, half>>, entries |-> entries]

Of(v, s) == [i \in DOMAIN s |-> <<v, s[i][1], s[i][2]>>]

\* Sector 0 the table, 1 to 3 the directory, 4 the mini table, 5 and 6 the mini stream.
Usual ==
  [version |-> 1, readable |-> TRUE, sound |-> TRUE, last |-> 9,
   listed |-> <<0>>, firstDifat |-> None, numDifat |-> 0, difat |-> <<>>, numFat |-> 1,
   table |-> 0 :> <<None, 2, 3, None, None, 6, None, 8, None, None>>,
   dirStart |-> 1,
   dirs |-> 1 :> <<Dir("Root", "root", None, None, 2, 5, 4), Leaf("Group1.db", None, 9, 0)>>
         @@ 2 :> <<Dir("Contact", "storage", 4, None, 3, None, 0), Leaf("Remark.db", 5, 0, 2)>>
         @@ 3 :> <<Dir("Group", "storage", None, None, 6, None, 0), Leaf("PublicInfo.db", None, 2, 2)>>,
   miniStart |-> 4, numMini |-> 1, minis |-> 4 :> <<1, None, 3, None>>, cutoff |-> 3,
   says |-> {}, truth |-> <<>>, names |-> <<>>]

Mate  == [kind |-> "buddy", ident |-> "77"]
Club  == [kind |-> "group", ident |-> "1"]
Card  == [kind |-> "member", ident |-> "77"]
Head1 == [kind |-> "contact", ident |-> "77"]

Twofold ==
  [Usual EXCEPT
     !.dirs[3][1].child = None,
     !.says = {Says(5, 2, "77" :> <<Text("", <<>>), Text("strRemark", <<"10001", "mate">>)>>),
               Says(6, 2, "77" :> <<Text("strCustomHeadFile", <<"public">>)>>)},
     !.truth = <<"Contact", "Remark.db">> :> Of(1, <<<<5, 1>>, <<5, 2>>>>) @@
                <<"Contact", "PublicInfo.db">> :> Of(1, <<<<6, 1>>, <<6, 2>>>>),
     !.names = Mate :> "mate" @@ Head1 :> "public"]

\* The table is in two sectors that only a chain of sectors tells; it leads back
\* to itself.
Chained ==
  [Usual EXCEPT
     !.version = 2, !.listed = <<>>, !.firstDifat = 3, !.numDifat = 3,
     !.difat = 3 :> [ids |-> <<0, 0>>, next |-> 9] @@ 9 :> [ids |-> <<4>>, next |-> 3],
     !.numFat = 2,
     !.table = 0 :> <<None, 2, None, None, None>> @@ 4 :> <<6, None, 8, None, None>>,
     !.dirs = 1 :> <<Dir("Root", "root", None, None, 1, None, 0),
                     Dir("Group", "storage", None, 3, 2, None, 0)>>
           @@ 2 :> <<Leaf("Basic.db", None, 7, 3), Dir("User", "storage", None, None, 4, None, 0)>>,
     !.miniStart = None, !.numMini = 0, !.minis = <<>>,
     !.says = {Says(7, 2, "1" :> <<Text("strGroupName", <<"10001">>),
                                  Text("strGroupName1", <<"club">>)>>)},
     !.truth = <<"Group", "Basic.db">> :> Of(2, <<<<7, 1>>, <<7, 2>>, <<8, 1>>>>),
     !.names = Club :> "club"]

\* A stream has the name of a folder, another the name of a third one once the
\* characters are replaced.
Clashing ==
  [Usual EXCEPT
     !.version = 3,
     !.dirs = 1 :> <<Dir("Root", "root", None, None, 1, 5, 4), Leaf("Group", 2, 0, 2)>>
           @@ 2 :> <<Dir("Group", "storage", None, None, 3, None, 0), Leaf("Basic.db", 4, 2, 1)>>
           @@ 3 :> <<Leaf("Basic:db", None, 3, 1), EmptyEntry>>,
     !.says = {},
     !.truth = <<"Group">> :> Of(3, <<<<5, 1>>, <<5, 2>>>>) @@
                <<"Group", "Basic.db">> :> Of(3, <<<<6, 1>>>>) @@
                <<"Group", "Basic:db">> :> Of(3, <<<<6, 2>>>>)]

\* Members of a group: a title, a card and a nick.
Members ==
  [Usual EXCEPT
     !.version = 4,
     !.dirs = 1 :> <<Dir("Root", "root", None, None, 1, 5, 4),
                     Dir("User", "storage", None, None, 2, None, 0)>>
           @@ 2 :> <<Leaf("Group1.db", None, 0, 4), EmptyEntry>>,
     !.cutoff = 5, !.minis = 4 :> <<1, 2, 3, None>>,
     !.says = {Says(5, 2, "77" :> <<Text("", <<>>), Text("title", <<"chief">>), Text("nick", <<"77">>)>>),
               Says(6, 2, "77" :> <<Text("card", <<"card">>)>>)},
     !.truth = <<"User", "Group1.db">> :> Of(4, <<<<5, 1>>, <<5, 2>>, <<6, 1>>, <<6, 2>>>>),
     !.names = Card :> "card"]

\* Chains that come back, an entry that is its own neighbour, and no root.
Damaged ==
  [Usual EXCEPT
     !.version = 5, !.sound = FALSE,
     !.table = 0 :> <<None, 2, 3, None, None, 6, 5, 8, 7, None>>,
     !.dirs = 1 :> <<Dir("Root", "root", None, None, 1, 5, 4), Leaf("Basic.db", 1, 7, 6)>>
           @@ 2 :> <<Leaf("lost", 1, 0, 2), EmptyEntry>>,
     !.minis = 4 :> <<1, 0, None, None>>]

Rootless ==
  [Damaged EXCEPT
     !.version = 6, !.cutoff = 9,
     !.dirs = 1 :> <<EmptyEntry, Leaf("Basic.db", 1, 0, 6)>>
           @@ 2 :> <<Leaf("Remark.db", 1, 7, 2), EmptyEntry>>]

Unreadable == [Usual EXCEPT !.version = 7, !.readable = FALSE, !.sound = FALSE]

MCContainers == <<Twofold, Chained, Clashing, Members, Damaged, Rootless, Unreadable>>
MCQuestions  == {Mate, Club, Card, Head1}
=============================================================================
