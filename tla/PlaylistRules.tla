------------------------------ MODULE PlaylistRules ------------------------------
(***************************************************************************)
(* The rules for the playlist as a whole (rules/playlist): duplicates,     *)
(* which pattern_matcher.go groups, are merged or removed, and channels    *)
(* are sorted.  A store is the sequence of the request's channels, the     *)
(* removed ones included.  Where the code sorts a group with an unstable   *)
(* sort or leaves an order open, an operator returns every store that may  *)
(* come out; Absent among them is an error.                                *)
(***************************************************************************)
EXTENDS Channels

CONSTANTS
    Chunks,    \* a value as naturalLess reads it: numbers and single characters
    MaxInt     \* of int64: a longer number counts as 0

ASSUME ChunksAssumption ==
    Chunks \in [Values -> Seq([digit : BOOLEAN, value : Nat])] /\ MaxInt \in Nat

DuplicatesRule ==
    [kind : {"merge_duplicates", "remove_duplicates"}, selector : Selector,
     patterns : Seq(Pattern), final : Maybe([selector : Selector, template : Template]),
     condition : Maybe(Conditions)]
SortRule ==
    [kind : {"sort"}, selector : Selector, order : Seq(Pattern),
     groupBy : Maybe([selector : Selector, order : Seq(Pattern)]), condition : Maybe(Conditions)]
PlaylistRule == DuplicatesRule \cup SortRule

-----------------------------------------------------------------------------
(* PatternMatcher. *)

\* The value without what the patterns match; a missing field is "".  Values are taken
\* to have no white space that strings.Fields would change.
extractBaseName(ch, rule) ==
    LET value == GetFieldValue(ch, rule.selector)
        left[k \in 0 .. Len(rule.patterns)] ==
            IF k = 0 THEN value ELSE ReplaceAllString(left[k - 1], rule.patterns[k])
    IN IF value \in {Absent, ""} THEN "" ELSE left[Len(rule.patterns)]

\* Channels with one base name, which is not the whole value for all of them.
IsGroup(st, rule, group, base) ==
    /\ Cardinality(group) > 1
    /\ \E i \in group : GetFieldValue(st[i], rule.selector) \notin {Absent, base}

\* The groups, which are disjoint.
GroupChannels(st, rule) ==
    LET base(i)  == extractBaseName(st[i], rule)
        named(b) == {i \in DOMAIN st : base(i) = b} IN
    {named(b) : b \in {x \in {base(i) : i \in DOMAIN st} : IsGroup(st, rule, named(x), x)}}

\* The first pattern has the highest priority, but the empty one only counts for
\* a channel that no other matches.  Without a match the priority stays.
Prioritised(ch, rule) ==
    LET n == Len(rule.patterns)
        value == GetFieldValue(ch, rule.selector)
        empties == {k \in 1 .. n : rule.patterns[k].empty}
        emptyPrio == IF empties = {} THEN 0 ELSE n + 1 - Max(empties)
        prios == IF value \in {Absent, ""} THEN {}
                 ELSE {n + 1 - k : k \in {j \in 1 .. n : MatchString(rule.patterns[j], value)}}
        others == prios \ {emptyPrio} IN
    IF prios = {} THEN ch
    ELSE [ch EXCEPT !.priority = IF others # {} THEN Max(others) ELSE emptyPrio]

MatchGroups(st, rule) ==
    [i \in DOMAIN st |-> IF \E g \in GroupChannels(st, rule) : i \in g
                         THEN Prioritised(st[i], rule) ELSE st[i]]

\* Mutant: group[0] if the sort were ascending.
Worsts(st, group) == {i \in group : \A j \in group : st[i].priority <= st[j].priority}

\* group[0] after sort.Slice by priority: any of those with the highest.
Bests(st, group) == {i \in group : \A j \in group : st[j].priority <= st[i].priority}

-----------------------------------------------------------------------------
(* MergeDuplicatesProcessor and RemoveDuplicatesProcessor: best is the best of *)
(* the group that channel i belongs to.                                        *)

FinalValue(st, rule, i, best) ==
    LET sel   == rule.final.selector
        value == Render(rule.final.template, st[best], extractBaseName(st[best], rule)) IN
    IF rule.final = Absent THEN st[i]
    ELSE IF Invalid(sel, value) THEN Absent ELSE SetField(st[i], sel, value)

\* All of a group take the tvg-id of the best one and the final value.
MergeChannel(st, rule, i, best) ==
    LET id == st[best].attrs["tvg-id"]
        same == [st EXCEPT ![i].attrs["tvg-id"] = IF id = Absent THEN @ ELSE id] IN
    FinalValue(same, rule, i, best)

\* The best one takes the final value and the others are removed.
RemoveDuplicate(st, rule, i, best) ==
    IF i = best THEN FinalValue(st, rule, i, best) ELSE [st[i] EXCEPT !.removed = TRUE]

\* bests: the best channel of each group.
Deduplicated(st, rule) ==
    LET matched == MatchGroups(st, rule)
        groups  == GroupChannels(st, rule)
        process(i, best) == IF rule.kind = "merge_duplicates"
                            THEN MergeChannel(matched, rule, i, best)
                            ELSE RemoveDuplicate(matched, rule, i, best)
        processed(bests) ==
            [i \in DOMAIN st |->
                IF \E g \in groups : i \in g
                THEN process(i, CHOOSE b \in bests : \E g \in groups : {i, b} \subseteq g)
                ELSE st[i]] IN
    {IF \E i \in DOMAIN st : processed(bests)[i] = Absent THEN Absent ELSE processed(bests) :
        bests \in Choices({Bests(matched, g) : g \in groups})}

-----------------------------------------------------------------------------
(* SortProcessor. *)

extractNumber(chunk) == IF chunk.value > MaxInt THEN 0 ELSE chunk.value

\* Chunk by chunk: numbers by their value, and before other characters.
naturalLess(a, b) ==
    LET x == Chunks[a]
        y == Chunks[b]
        key(c) == IF c.digit THEN extractNumber(c) ELSE c.value
        differ == {i \in DOMAIN x \cap DOMAIN y :
                      x[i].digit # y[i].digit \/ key(x[i]) # key(y[i])}
        i == Min(differ) IN
    IF differ = {} THEN Len(x) < Len(y)
    ELSE IF x[i].digit = y[i].digit THEN key(x[i]) < key(y[i]) ELSE x[i].digit

\* getChannelPriority, getGroupPriority: the first pattern that matches, else the
\* empty one, else behind all; a missing field is behind all.
OrderPriority(order, value) ==
    LET matching == {k \in DOMAIN order : ~order[k].empty /\ MatchString(order[k], value)}
        empties  == {k \in DOMAIN order : order[k].empty} IN
    IF value = Absent THEN Len(order)
    ELSE IF matching # {} THEN Min(matching) - 1
    ELSE IF empties # {} THEN Min(empties) - 1
    ELSE Len(order)

\* Mutant: a channel with the field is before every channel without, and so is
\* one without it.
ChannelLessIfMissing(rule, a, b) ==
    LET x == GetFieldValue(a, rule.selector)
        y == GetFieldValue(b, rule.selector)
        p == OrderPriority(rule.order, x)
        q == OrderPriority(rule.order, y) IN
    IF p # q THEN p < q ELSE y = Absent \/ (x # Absent /\ naturalLess(x, y))

\* The comparison that sort.Slice is given.
ChannelLess(rule, a, b) ==
    LET x == GetFieldValue(a, rule.selector)
        y == GetFieldValue(b, rule.selector)
        p == OrderPriority(rule.order, x)
        q == OrderPriority(rule.order, y) IN
    IF p # q THEN p < q ELSE x # Absent /\ (y = Absent \/ naturalLess(x, y))

GroupKey(rule, ch) ==
    IF rule.groupBy = Absent THEN "" ELSE OrEmpty(GetFieldValue(ch, rule.groupBy.selector))

GroupLess(rule, a, b) ==
    LET p == OrderPriority(rule.groupBy.order, a)
        q == OrderPriority(rule.groupBy.order, b) IN
    IF p # q THEN p < q ELSE naturalLess(a, b)

\* Groups stay together; what the comparisons do not tell apart may go either way.
IsSortedBy(rule, st) ==
    LET key == [i \in DOMAIN st |-> GroupKey(rule, st[i])] IN
    /\ \A i, j \in DOMAIN st : i < j =>
          IF key[i] = key[j] THEN ~ChannelLess(rule, st[j], st[i])
          ELSE ~GroupLess(rule, key[j], key[i])
    /\ \A i, j, k \in DOMAIN st : i < j /\ j < k /\ key[i] = key[k] => key[j] = key[i]

SortedStores(st, rule) ==
    {t \in {[i \in DOMAIN st |-> st[p[i]]] : p \in SetToSeqs(DOMAIN st)} : IsSortedBy(rule, t)}

-----------------------------------------------------------------------------
\* Only clients and invert count, and invert only with clients.
evaluateStoreCondition(condition, client) ==
    condition # Absent /\ condition.clients # {} =>
        condition.invert # (client \in condition.clients)

\* Processor.Apply, one rule: the stores that may come out, or Absent.
ApplyPlaylistRule(st, rule, client) ==
    IF ~evaluateStoreCondition(rule.condition, client) THEN {st}
    ELSE IF rule.kind = "sort" THEN SortedStores(st, rule)
    ELSE Deduplicated(st, rule)
=============================================================================
