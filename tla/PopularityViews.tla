-------------------------- MODULE PopularityViews --------------------------
(***************************************************************************)
(* image_insights.rs: what a page of the popularity analysis shows.        *)
(* rebuild_cube_and_summaries counts messages into a cube and summaries    *)
(* of it, in one transaction; overview, compute_ranked_assets and compare  *)
(* answer a query from whichever of these tables is cheapest.  Every       *)
(* statement of an overview is a transaction of its own, so a build may    *)
(* commit between two of them; image_insights_overview keeps the answer    *)
(* under the identity of the build.                                        *)
(*                                                                         *)
(* Senders, tables, types and images are numbers in their order, dates     *)
(* are numbers of days, None is an absent date.  PopularityBuild models    *)
(* how the facts of the messages come to be complete.                      *)
(***************************************************************************)
EXTENDS Integers, Sequences, FiniteSets, SequencesExt, FiniteSetsExt, TLC

CONSTANTS
  Archives,     \* the sets of messages the linker may have recorded
  Rep,          \* image -> representative of its exact group
  Resolutions,  \* what SameImageCache may answer: representative -> its group
  Filters,      \* queries
  FacetLimit,       \* senders and conversations of an overview (100)
  DimensionLimit,   \* items of a comparison (30)
  CandidateLimit,   \* CANDIDATE_LIMIT
  CompareLimit, TopLimit,  \* COMPARE_CANDIDATE_LIMIT; images of an item (8)
  Windows,          \* windows of a ranking, in days
  Revived, Dormant, \* references and days a revival needs (5, 30)
  KeptOverviews,    \* OVERVIEW_CACHE_LIMIT
  MaxStamp          \* how often the build state is written

None == 0
Images == DOMAIN Rep
Ranks == {"popular", "reach", "growth", "new", "revival"}

ASSUME ViewsAssumption ==
  /\ \A f \in Archives : \A m \in f :
       /\ m.assets \subseteq Images /\ m.assets # {}
       /\ m.date \in Nat /\ m.sender \in Nat /\ m.table \in Nat /\ m.type \in Nat
  /\ \A q \in Filters : q.from = None \/ q.to = None \/ q.from <= q.to
  /\ \A g \in Resolutions : \A r \in DOMAIN g : r \in g[r]
  /\ {FacetLimit, DimensionLimit, CandidateLimit, KeptOverviews} \subseteq Nat \ {0}

VARIABLES
  facts,   \* messages of image_asset_occurrences
  cube,    \* image_popularity_cube: key -> reference_count
  build,   \* image_popularity_build_state; stamp 0: no row
  query,   \* the filters of the page
  ov,      \* the overview being computed
  cached,  \* insights_overview_cache for the query, the latest used last
  answer   \* the answer just given

viewVars == <<facts, cube, build, query, ov, cached, answer>>

Sum(f(_), S) == MapThenSumSet(f, S)

(***************************************************************************)
(* The cube.  Rows are counted first; messages that name several images    *)
(* of one exact group were counted too often, which a second pass takes    *)
(* back.                                                                   *)
(***************************************************************************)
CubeKey(m, r) ==
  [rep |-> r, date |-> m.date, sender |-> m.sender, table |-> m.table, type |-> m.type]

Dated(f) == {m \in f : m.date # None}
Occurrences(f) == UNION {{m} \X m.assets : m \in Dated(f)}
OccurrencesAt(f, k) == {o \in Occurrences(f) : CubeKey(o[1], Rep[o[2]]) = k}

\* Bug: what was counted too often is not taken back.
NoRepeats(f, k) == 0

Repeats(f, k) ==
  LET at == OccurrencesAt(f, k)
      Extra(m) == Cardinality({o \in at : o[1] = m}) - 1
  IN  IF Cardinality({a \in Images : Rep[a] = k.rep}) > 1
        THEN Sum(Extra, {o[1] : o \in at}) ELSE 0

CubeOf(f) ==
  [k \in {CubeKey(o[1], Rep[o[2]]) : o \in Occurrences(f)} |->
     Cardinality(OccurrencesAt(f, k)) - Repeats(f, k)]

(***************************************************************************)
(* image_popularity_summary_cache and image_popularity_daily_conversation, *)
(* written with the cube.                                                  *)
(***************************************************************************)
References(ks) == LET Count(k) == cube[k] IN Sum(Count, ks)

Totals(ks) ==
  [references |-> References(ks), images |-> Cardinality({k.rep : k \in ks}),
   senders |-> Cardinality({k.sender : k \in ks}),
   tables |-> Cardinality({k.table : k \in ks})]

ScopeKey(scope, k) ==
  CASE scope = "date" -> k.date [] scope = "sender" -> k.sender
    [] scope = "conversation" -> k.table

InScope(scope, key) == {k \in DOMAIN cube : ScopeKey(scope, k) = key}
ScopeKeys(scope) == {ScopeKey(scope, k) : k \in DOMAIN cube}

\* Column and total of every group, sorted, the limit applied.
Facets(counts, limit) ==
  LET Before(a, b) == counts[a] > counts[b] \/ (counts[a] = counts[b] /\ a < b)
      all == SetToSortSeq(DOMAIN counts, Before)
      cut == SubSeq(all, 1, IF Len(all) < limit THEN Len(all) ELSE limit)
  IN  [i \in DOMAIN cut |-> <<cut[i], counts[cut[i]]>>]

CountsBy(scope, ks) ==
  [key \in {ScopeKey(scope, k) : k \in ks} |->
     References({k \in ks : ScopeKey(scope, k) = key})]

SummaryCounts(scope) == CountsBy(scope, DOMAIN cube)

\* image_popularity_daily_conversation: date, table and type.
DailyRows == {[date |-> k.date, table |-> k.table, type |-> k.type] : k \in DOMAIN cube}
DailyCount(d) ==
  References({k \in DOMAIN cube : k.date = d.date /\ k.table = d.table /\ k.type = d.type})

Dates == {k.date : k \in DOMAIN cube}
\* first_date and last_date of the row that sums up everything.
FullRange == IF Dates = {} THEN <<None, None>> ELSE <<Min(Dates), Max(Dates)>>

(***************************************************************************)
(* cube_filter_parts.                                                      *)
(***************************************************************************)
Within(date, from, to) == (from = None \/ date >= from) /\ (to = None \/ date <= to)
OneOf(value, chosen) == chosen = {} \/ value \in chosen

Filtered(q, bySender, byTable) ==
  {k \in DOMAIN cube :
     /\ Within(k.date, q.from, q.to)
     /\ bySender => OneOf(k.sender, q.senders)
     /\ byTable => OneOf(k.table, q.tables)
     /\ OneOf(k.type, q.types)}

Unfiltered(q) == /\ q.from = None /\ q.to = None
                 /\ q.senders = {} /\ q.tables = {} /\ q.types = {}

\* Bug: a filter on the type does not keep from using the row of the sender.
SingleSender(q) ==
  IF Cardinality(q.senders) = 1 /\ q.from = None /\ q.to = None /\ q.tables = {}
    THEN <<"sender", CHOOSE s \in q.senders : TRUE>> ELSE <<>>

\* cached_single_filter_summary: the row it looks for.
SingleFilter(q) ==
  CASE q.from = None /\ q.to = None /\ Cardinality(q.senders) = 1
       /\ q.tables = {} /\ q.types = {} -> <<"sender", CHOOSE s \in q.senders : TRUE>>
    [] q.from = None /\ q.to = None /\ q.senders = {}
       /\ Cardinality(q.tables) = 1 /\ q.types = {}
         -> <<"conversation", CHOOSE t \in q.tables : TRUE>>
    [] q.senders = {} /\ q.tables = {} /\ q.types = {}
       /\ q.from # None /\ q.from = q.to -> <<"date", q.from>>
    [] OTHER -> <<>>

Selected(q) ==
  LET one == SingleFilter(q) IN
  IF one # <<>> /\ one[2] \in ScopeKeys(one[1])
    THEN Totals(InScope(one[1], one[2]))
    ELSE Totals(Filtered(q, TRUE, TRUE))

(***************************************************************************)
(* An overview, one statement after the other.  Without filters the row of *)
(* everything already is what is selected, and the timeline is its own     *)
(* selection.                                                              *)
(***************************************************************************)
Idle == [pc |-> "idle", identity |-> None, commits |-> 0, shown |-> <<>>]
NoAnswer == [kind |-> "none"]

Summaries == Unfiltered(query) /\ build.summarized
Show(field, value, next) ==
  /\ ov' = [ov EXCEPT !.pc = next, !.shown = @ @@ (field :> value)]
  /\ UNCHANGED <<facts, cube, build, query, cached, answer>>

\* InsightsOverviewCache: get and insert.
Without(identity) == LET Other(e) == e.identity # identity IN SelectSeq(cached, Other)
Keep(identity, value) ==
  LET all == Append(Without(identity), [identity |-> identity, value |-> value])
  IN  IF Len(all) > KeptOverviews THEN Tail(all) ELSE all

\* overview_cache_identity, and the lookup under it.
AskOverview ==
  /\ ov.pc = "idle" /\ answer = NoAnswer
  /\ IF \E i \in DOMAIN cached : cached[i].identity = build.stamp
       THEN LET i == CHOOSE i \in DOMAIN cached : cached[i].identity = build.stamp IN
            /\ answer' = [kind |-> "overview", served |-> TRUE, mixed |-> FALSE,
                           of |-> build.counted, coverage |-> <<build.ready, build.facts>>,
                           value |-> cached[i].value]
            /\ cached' = Keep(build.stamp, cached[i].value)
            /\ UNCHANGED ov
       ELSE /\ ov' = [Idle EXCEPT !.pc = "range", !.identity = build.stamp,
                                  !.commits = build.commits]
            /\ UNCHANGED <<cached, answer>>
  /\ UNCHANGED <<facts, cube, build, query>>

\* Bug: the answer is kept under the identity it ends with.
KeepUnderLast ==
  /\ ov.pc = "coverage"
  /\ LET value == ov.shown @@ ("coverage" :> <<build.ready, build.facts>>) IN
     /\ answer' = [kind |-> "overview", served |-> FALSE, mixed |-> ov.commits # build.commits,
                   of |-> build.counted, value |-> value]
     /\ cached' = Keep(build.stamp, value)
  /\ ov' = Idle
  /\ UNCHANGED <<facts, cube, build, query>>

ReadRange ==
  /\ ov.pc = "range"
  /\ IF Summaries
       THEN LET all == [range |-> FullRange, selected |-> Totals(DOMAIN cube)] IN
            /\ ov' = [ov EXCEPT !.pc = "dates", !.shown = all]
            /\ UNCHANGED <<facts, cube, build, query, cached, answer>>
       ELSE Show("range", IF build.summarized THEN FullRange ELSE <<None, None>>, "dates")

ReadDates ==
  /\ ov.pc = "dates"
  /\ IF "selected" \in DOMAIN ov.shown
       THEN LET total == SummaryCounts("date") IN
            /\ ov' = [ov EXCEPT !.pc = "senders",
                                !.shown = @ @@ [total |-> total, timeline |-> total]]
            /\ UNCHANGED <<facts, cube, build, query, cached, answer>>
       ELSE Show("total", SummaryCounts("date"), "selected")

ReadSelected == ov.pc = "selected" /\ Show("selected", Selected(query), "timeline")

\* A selected date the summaries do not know joins the timeline.
ReadTimeline ==
  /\ ov.pc = "timeline"
  /\ LET chosen == CountsBy("date", Filtered(query, TRUE, TRUE))
         total  == ov.shown.total @@ chosen
     IN  ov' = [ov EXCEPT !.pc = "senders",
                          !.shown = [timeline |-> chosen, total |-> total] @@ @]
  /\ UNCHANGED <<facts, cube, build, query, cached, answer>>

\* The filter of a facet does not narrow the facet itself.
SenderFacets ==
  IF query.from = None /\ query.to = None /\ query.tables = {} /\ query.types = {}
    THEN SummaryCounts("sender")
    ELSE CountsBy("sender", Filtered(query, FALSE, TRUE))

ReadSenders ==
  ov.pc = "senders" /\ Show("senders", Facets(SenderFacets, FacetLimit), "conversations")

DailyFacets ==
  LET rows == {d \in DailyRows : Within(d.date, query.from, query.to)
                                 /\ OneOf(d.type, query.types)}
  IN  [t \in {d.table : d \in rows} |-> Sum(DailyCount, {d \in rows : d.table = t})]

ConversationFacets ==
  IF query.from = None /\ query.to = None /\ query.senders = {} /\ query.types = {}
    THEN SummaryCounts("conversation")
  ELSE IF query.senders = {} /\ build.ready THEN DailyFacets
  ELSE CountsBy("conversation", Filtered(query, TRUE, FALSE))

ReadConversations ==
  /\ ov.pc = "conversations"
  /\ Show("conversations", Facets(ConversationFacets, FacetLimit), "coverage")

KeepOverview ==
  /\ ov.pc = "coverage"
  /\ LET value == ov.shown @@ ("coverage" :> <<build.ready, build.facts>>) IN
     /\ answer' = [kind |-> "overview", served |-> FALSE, mixed |-> ov.commits # build.commits,
                   of |-> build.counted, value |-> value]
     /\ cached' = Keep(ov.identity, value)
  /\ ov' = Idle
  /\ UNCHANGED <<facts, cube, build, query>>

(***************************************************************************)
(* compute_ranked_assets.                                                  *)
(***************************************************************************)
\* archive_range; <<>> when nothing is known of the archive.
ArchiveRange ==
  IF build.summarized \/ Dates # {} THEN FullRange ELSE <<>>

NeedsWindow(rank) == rank \in {"growth", "revival"}

\* ranking_windows; the empty dates of an empty archive cannot be parsed.
WindowFails(rank) ==
  NeedsWindow(rank) /\ ArchiveRange = <<None, None>>
  /\ (query.from = None \/ query.to = None)

Current(rank, window) ==
  IF ~NeedsWindow(rank) \/ ArchiveRange = <<>> THEN <<query.from, query.to>>
  ELSE IF query.from = None /\ query.to = None
    THEN <<ArchiveRange[2] - (window - 1), ArchiveRange[2]>>
    ELSE <<IF query.from = None THEN ArchiveRange[1] ELSE query.from,
           IF query.to = None THEN ArchiveRange[2] ELSE query.to>>

\* Bug: the window before starts a day late.
ShortPrevious(now) ==
  IF None \in {now[1], now[2]} THEN <<None, None>>
  ELSE <<now[1] - (now[2] - now[1]), now[1] - 1>>

Previous(now) ==
  IF None \in {now[1], now[2]} THEN <<None, None>>
  ELSE <<now[1] - (now[2] - now[1] + 1), now[1] - 1>>

FirstOf(seq, n) == SubSeq(seq, 1, IF Len(seq) < n THEN Len(seq) ELSE n)

\* image_exact_reference_counts holds the messages of every exact group.
ReferenceCount(r) == Cardinality({m \in facts : r \in {Rep[a] : a \in m.assets}})

\* candidate_representatives.
CandidatesIn(from, to) ==
  LET q == [query EXCEPT !.from = from, !.to = to]
      ks == Filtered(q, TRUE, TRUE)
      Total(r) == References({k \in ks : k.rep = r})
      counted == {r \in {Rep[a] : a \in Images} : ReferenceCount(r) > 0}
      ByCount(a, b) ==
        \/ ReferenceCount(a) > ReferenceCount(b)
        \/ ReferenceCount(a) = ReferenceCount(b) /\ a > b
      ByTotal(a, b) == Total(a) > Total(b) \/ (Total(a) = Total(b) /\ a < b)
  IN  FirstOf(IF Unfiltered(q) /\ counted # {} THEN SetToSortSeq(counted, ByCount)
              ELSE SetToSortSeq({k.rep : k \in ks}, ByTotal), CandidateLimit)

GroupKey(members) == Min(members)

\* Bug: only the candidate itself counts for its group.
CandidatesOnly(candidates, group) ==
  [r \in {candidates[i] : i \in DOMAIN candidates} |-> GroupKey(group[r])]

\* The group a member counts for: that of the last candidate it resembles.
MembersOf(candidates, group) ==
  LET Latest(r) == Max({i \in DOMAIN candidates : r \in group[candidates[i]]})
      members == UNION {group[candidates[i]] : i \in DOMAIN candidates}
  IN  [r \in members |-> GroupKey(group[candidates[Latest(r)]])]

DimensionRows(reps) ==
  {k \in Filtered([query EXCEPT !.from = None, !.to = None], TRUE, TRUE) : k.rep \in reps}
In(ks, window) == {k \in ks : Within(k.date, window[1], window[2])}

\* rank_group.
Card(key, reps, now) ==
  LET all == DimensionRows(reps)
      shown == In(all, now)
      before == IF Previous(now) = <<None, None>> THEN shown ELSE In(all, Previous(now))
  IN  [key |-> key, references |-> References(shown),
       senders |-> Cardinality({k.sender : k \in shown}),
       tables |-> Cardinality({k.table : k \in shown}),
       previous |-> References(before),
       first |-> Min({k.date : k \in all}), last |-> Max({k.date : k \in shown}),
       lastBefore |-> Max({k.date : k \in {j \in all : j.date < now[1]}} \cup {None})]

Qualifies(rank, card, now) ==
  CASE rank = "new" -> Within(card.first, now[1], now[2])
    [] rank = "revival" ->
         /\ now[1] # None
         /\ card.references >= Revived /\ card.previous = 0
         /\ card.lastBefore # None /\ now[1] - card.lastBefore >= Dormant
    [] OTHER -> TRUE

Cards(rank, now, candidates, group) ==
  LET of == MembersOf(candidates, group)
      Reps(key) == {r \in DOMAIN of : of[r] = key}
      Shown(key) == In(DimensionRows(Reps(key)), now) # {}
      keys == {key \in {of[r] : r \in DOMAIN of} : Shown(key)}
  IN  {c \in {Card(key, Reps(key), now) : key \in keys} : Qualifies(rank, c, now)}

Rank(rank, window, group) ==
  /\ ov.pc = "idle" /\ answer = NoAnswer
  /\ LET now == Current(rank, window)
         candidates == CandidatesIn(now[1], now[2])
     IN  answer' =
           IF WindowFails(rank) THEN [kind |-> "failed"]
           ELSE [kind |-> "cards", of |-> build.counted, rank |-> rank, now |-> now, group |-> group,
                 candidates |-> candidates, cards |-> Cards(rank, now, candidates, group)]
  /\ UNCHANGED <<facts, cube, build, query, ov, cached>>

(***************************************************************************)
(* compare.                                                                *)
(***************************************************************************)
\* The best images of an item, those of one group added up.
TopImages(scope, key, candidates, group) ==
  LET ks == {k \in Filtered(query, TRUE, TRUE) :
               ScopeKey(scope, k) = key /\ k.rep \in ToSet(candidates)}
      best == Facets([r \in {k.rep : k \in ks} |-> References({k \in ks : k.rep = r})],
                     CompareLimit)
      Of(g) == {i \in DOMAIN best : GroupKey(group[best[i][1]]) = g}
      Total(i) == best[i][2]
  IN  Facets([g \in {GroupKey(group[best[i][1]]) : i \in DOMAIN best} |-> Sum(Total, Of(g))],
             TopLimit)

Compare(scope, group) ==
  /\ ov.pc = "idle" /\ answer = NoAnswer
  /\ LET counts == IF Unfiltered(query) THEN SummaryCounts(scope)
                   ELSE CountsBy(scope, Filtered(query, TRUE, TRUE))
         items == Facets(counts, DimensionLimit)
         candidates == CandidatesIn(query.from, query.to)
     IN  answer' =
           [kind |-> "items", of |-> build.counted, scope |-> scope, group |-> group,
            candidates |-> candidates,
            items |-> [i \in DOMAIN items |->
                         [key |-> items[i][1], references |-> items[i][2],
                          top |-> TopImages(scope, items[i][1], candidates, group)]]]
  /\ UNCHANGED <<facts, cube, build, query, ov, cached>>

(***************************************************************************)
(* The writers.                                                            *)
(***************************************************************************)
Link ==
  /\ answer = NoAnswer
  /\ \E f \in Archives : facts \subseteq f /\ facts # f /\ facts' = f
  /\ UNCHANGED <<cube, build, query, ov, cached, answer>>

\* mark_build_not_ready.
MarkNotReady ==
  /\ answer = NoAnswer
  /\ build.stamp < MaxStamp
  /\ build' = [build EXCEPT !.stamp = @ + 1, !.ready = FALSE]
  /\ UNCHANGED <<facts, cube, query, ov, cached, answer>>

\* rebuild_cube_and_summaries commits; "commits" and "counted" only tell it.
Rebuild ==
  /\ answer = NoAnswer
  /\ build.stamp < MaxStamp
  /\ cube' = CubeOf(facts)
  /\ build' = [stamp |-> build.stamp + 1, ready |-> TRUE, summarized |-> TRUE,
               facts |-> Cardinality(facts), commits |-> build.commits + 1,
               counted |-> facts]
  /\ UNCHANGED <<facts, query, ov, cached, answer>>

\* The answer is delivered.
Deliver ==
  /\ answer # NoAnswer /\ answer' = NoAnswer
  /\ UNCHANGED <<facts, cube, build, query, ov, cached>>

ViewsInit ==
  /\ facts \in Archives
  /\ query \in Filters
  /\ cube = <<>>
  /\ build = [stamp |-> 0, ready |-> FALSE, summarized |-> FALSE, facts |-> 0,
              commits |-> 0, counted |-> {}]
  /\ ov = Idle /\ cached = <<>> /\ answer = NoAnswer

ViewsNext ==
  \/ AskOverview \/ ReadRange \/ ReadDates \/ ReadSelected \/ ReadTimeline
  \/ ReadSenders \/ ReadConversations \/ KeepOverview
  \/ \E group \in Resolutions :
       \/ \E rank \in Ranks, window \in Windows : Rank(rank, window, group)
       \/ \E scope \in {"sender", "conversation"} : Compare(scope, group)
  \/ Deliver \/ Link \/ MarkNotReady \/ Rebuild

ViewsSpec == ViewsInit /\ [][ViewsNext]_viewVars

(***************************************************************************)
(* What the pages promise: the numbers of a plain count over messages.  An *)
(* image counts once for a message, however many of its equal files the    *)
(* message names.                                                          *)
(***************************************************************************)
PlainRows(f) == UNION {{m} \X {Rep[a] : a \in m.assets} : m \in Dated(f)}

Chosen(f, q, bySender, byTable) ==
  {p \in PlainRows(f) :
     /\ Within(p[1].date, q.from, q.to) /\ OneOf(p[1].type, q.types)
     /\ bySender => OneOf(p[1].sender, q.senders)
     /\ byTable => OneOf(p[1].table, q.tables)}

PlainTotals(ps) ==
  [references |-> Cardinality(ps), images |-> Cardinality({p[2] : p \in ps}),
   senders |-> Cardinality({p[1].sender : p \in ps}),
   tables |-> Cardinality({p[1].table : p \in ps})]

PlainCounts(scope, ps) ==
  [key \in {ScopeKey(scope, p[1]) : p \in ps} |->
     Cardinality({p \in ps : ScopeKey(scope, p[1]) = key})]

\* An overview that no build interrupted shows the numbers of a plain count,
\* whichever tables they came from, and one served from the cache those of the
\* tables as they are: facets leave their own filter out, all else applies every
\* filter (overview, cached_single_filter_summary, image_insights_overview).
OverviewExact ==
  answer.kind = "overview" /\ ~answer.mixed =>
    LET of == answer.of
        v  == answer.value
        chosen == Chosen(of, query, TRUE, TRUE)
        dates == {p[1].date : p \in PlainRows(of)}
    IN  /\ v.range = IF dates = {} THEN <<None, None>> ELSE <<Min(dates), Max(dates)>>
        /\ v.total = PlainCounts("date", PlainRows(of))
        /\ v.selected = PlainTotals(chosen)
        /\ v.timeline = PlainCounts("date", chosen)
        /\ v.senders =
             Facets(PlainCounts("sender", Chosen(of, query, FALSE, TRUE)), FacetLimit)
        /\ v.conversations =
             Facets(PlainCounts("conversation", Chosen(of, query, TRUE, FALSE)), FacetLimit)
        /\ answer.served => v.coverage = answer.coverage

Disjoint(group) ==
  \A r, s \in DOMAIN group : group[r] \cap group[s] = {} \/ group[r] = group[s]

PlainOf(reps, from, to) ==
  {p \in Chosen(answer.of, [query EXCEPT !.from = from, !.to = to], TRUE, TRUE) :
     p[2] \in reps}

\* The cards of a ranking count every reference at most once, and with groups
\* that do not overlap exactly the references of the group in the window; growth
\* compares with the window just before, a new image has no older reference, a
\* revived one none in the days before (compute_ranked_assets, rank_group).
CardsExact ==
  answer.kind = "cards" =>
    LET from == answer.now[1]
        to == answer.now[2]
        days == to - from + 1
        Shown(c) == c.references
    IN  /\ Sum(Shown, answer.cards) <= Cardinality(PlainOf(Images, from, to))
        /\ Disjoint(answer.group) =>
             /\ \A c \in answer.cards :
                  LET reps == answer.group[c.key] IN
                  /\ c.references = Cardinality(PlainOf(reps, from, to))
                  /\ None \notin {from, to} =>
                       c.previous = Cardinality(PlainOf(reps, from - days, from - 1))
                  /\ answer.rank = "new" =>
                       from = None \/ PlainOf(reps, None, from - 1) = {}
                  /\ answer.rank = "revival" =>
                       /\ PlainOf(reps, from - Dormant + 1, from - 1) = {}
                       /\ PlainOf(reps, None, from - Dormant) # {}
             /\ answer.rank = "popular" /\ Len(answer.candidates) < CandidateLimit =>
                  \A p \in PlainOf(Images, from, to) :
                    \E c \in answer.cards : p[2] \in answer.group[c.key]

\* A comparison shows for every sender or conversation its references under the
\* filters; the images named for it share them out, none counted twice, and all of
\* them when no limit cut any (compare).
ItemsExact ==
  answer.kind = "items" =>
    LET chosen == Chosen(answer.of, query, TRUE, TRUE)
        Total(item) == LET Of(i) == item.top[i][2] IN Sum(Of, DOMAIN item.top)
    IN  \A i \in DOMAIN answer.items :
          LET item == answer.items[i]
              plain == {p \in chosen : ScopeKey(answer.scope, p[1]) = item.key}
              groups == {GroupKey(answer.group[p[2]]) : p \in plain}
          IN  /\ item.references = Cardinality(plain)
              /\ Total(item) <= item.references
              /\ /\ Len(answer.candidates) < CandidateLimit
                 /\ Cardinality({p[2] : p \in plain}) <= CompareLimit
                 /\ Cardinality(groups) <= TopLimit
                 => Total(item) = item.references

\* Every page of the analysis shows the numbers of a plain count, from whichever
\* of the tables it was read.
PagesExact == OverviewExact /\ CardsExact /\ ItemsExact
=============================================================================
