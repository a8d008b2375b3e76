--------------------------- MODULE ManifestStore ---------------------------
(***************************************************************************)
(* The part of the image-index manifest (one SQLite file per account) that *)
(* the chat linker, the popularity builder and the indexer share:          *)
(*   occ       image_asset_occurrences, keyed by its primary key           *)
(*   groups    image_exact_groups: asset -> representative asset           *)
(*   cube      image_popularity_cube                                       *)
(*   build     image_popularity_build_state, the row with id=1             *)
(*   analysis  image_popularity_analysis_state, one row per conversation   *)
(* and the prepared chat databases they are derived from.  SQLite          *)
(* transactions are atomic: an action here is one committed transaction.   *)
(***************************************************************************)
EXTENDS Integers, FiniteSets, FiniteSetsExt

CONSTANTS
  Assets,      \* ids of indexed image assets
  Tables,      \* conversation tables
  MaxRowid,    \* bound on message rowids
  MaxSource,   \* how many versions of the prepared chat database there are
  ChatTables,  \* <<s, t>>: version s has conversation table t
  Messages,    \* <<s, t, r>>: table t of version s has a message with rowid r
  Plain,       \* <<s, t, r, a>>: message r shows asset a in its own content
  Forwarded,   \* <<s, t, r, a>>: message r shows a in a forwarded record
  Absent,      \* the key has no occurrence row
  NoRow        \* a state row that does not exist

Sources == 1 .. MaxSource
Rowids  == 1 .. MaxRowid
Keys    == Assets \X Tables \X Rowids

ASSUME ManifestAssumption ==
  /\ IsFiniteSet(Assets) /\ IsFiniteSet(Tables)
  /\ MaxRowid \in Nat
  /\ MaxSource \in Nat \ {0}
  /\ ChatTables \subseteq Sources \X Tables
  /\ Messages \subseteq Sources \X Tables \X Rowids
  /\ \A m \in Messages : <<m[1], m[2]>> \in ChatTables
  /\ \A f \in Plain \cup Forwarded :
        /\ f \in Sources \X Tables \X Rowids \X Assets
        /\ <<f[1], f[2], f[3]>> \in Messages

TablesOf(s) == {t \in Tables : <<s, t>> \in ChatTables}
RowsOf(s, t) == {r \in Rowids : <<s, t, r>> \in Messages}
\* select coalesce(max(rowid),0) from <table t>
LastRowid(s, t) == IF RowsOf(s, t) = {} THEN 0 ELSE Max(RowsOf(s, t))

(***************************************************************************)
(* What an occurrence row knows of its message.  "none": facts_updated_at  *)
(* is empty (written before facts were stored with the row); "void":       *)
(* inspected, the message is gone; "utc": facts with a date of an earlier  *)
(* release, not in the display time zone; "local": facts with a date as    *)
(* message_date computes it.                                               *)
(***************************************************************************)
Facts == {"none", "void", "utc", "local"}
Dated == {"utc", "local"}   \* message_time is not null

BuildRow == [schema : 2 .. 4, ready : BOOLEAN, occurrences : Nat, facts : Nat]
AnalysisRow == [occurrences : Nat, facts : Nat, completed : BOOLEAN]

ASSUME NullAssumption ==
  Absent \notin Facts /\ NoRow \notin BuildRow \cup AnalysisRow

VARIABLES
  source,      \* the version of the prepared chat database now on disk
  occ, groups, cube, build, analysis

manifestVars == <<source, occ, groups, cube, build, analysis>>

\* preprocess decrypts Msg3.0 again and renames the new file over the old one
\* (preprocess.rs, snapshot.rs); an open connection keeps reading the old file.
ReplaceSource ==
  /\ source < MaxSource
  /\ source' = source + 1
  /\ UNCHANGED <<occ, groups, cube, build, analysis>>

(***************************************************************************)
(* Derived data.                                                           *)
(***************************************************************************)
Present(o) == {k \in Keys : o[k] # Absent}
Inspected(o) == {k \in Present(o) : o[k] # "none"}
WithTime(o) == {k \in Present(o) : o[k] \in Dated}
In(K, t) == {k \in K : k[2] = t}

\* What rebuild_cube_and_summaries stores for the occurrences o and the exact
\* mapping g: every message counts once per representative and date, so the
\* reference_count of a cube row is the number of members of this set.
CubeOf(o, g) == {<<g[k[1]], k[2], k[3], o[k]>> : k \in WithTime(o)}

\* completed_analysis_report: the cube may be served.
Completed(b) == b # NoRow /\ b.schema = 4 /\ b.ready

(***************************************************************************)
(* invalidate_popularity_build (the generation counter it also advances is *)
(* modelled where it is read, in ReferenceCache).                          *)
(***************************************************************************)
Invalidated == [schema |-> 2, ready |-> FALSE, occurrences |-> 0, facts |-> 0]

\* Bug: every transaction of the linker takes the mark away, also those that
\* change nothing.
InvalidatedAlways(changed) == Invalidated

\* link_table and materialize_scan_states invalidate when rows changed.
InvalidatedWhen(changed) == IF changed THEN Invalidated ELSE build

\* mark_build_not_ready keeps the counters of an existing row.
NotReady(b) ==
  IF b = NoRow THEN [schema |-> 4, ready |-> FALSE, occurrences |-> 0, facts |-> 0]
  ELSE [b EXCEPT !.schema = 4, !.ready = FALSE]

\* Bug: the build row survives a new mapping.
RefreshGroupsOnly(g) ==
  /\ groups' = g
  /\ UNCHANGED <<source, occ, cube, build, analysis>>

\* refresh_exact_groups: the new mapping and, when it differs from the stored
\* one, the removal of everything computed from it, in one transaction.
RefreshExactGroups(g) ==
  /\ groups' = g
  /\ IF g # groups
       THEN cube' = {} /\ build' = NoRow
       ELSE UNCHANGED <<cube, build>>
  /\ UNCHANGED <<source, occ, analysis>>

Representatives == {g \in [Assets -> Assets] : \A a \in Assets : g[g[a]] = g[a]}

ManifestTypeOK ==
  /\ source \in Sources
  /\ occ \in [Keys -> Facts \cup {Absent}]
  /\ groups \in Representatives
  /\ cube \subseteq Assets \X Tables \X Rowids \X Dated
  /\ build \in BuildRow \cup {NoRow}
  /\ analysis \in [Tables -> AnalysisRow \cup {NoRow}]
=============================================================================
