------------------------- MODULE PlaylistStreamerProofs -------------------------
(***************************************************************************)
(* The playlist of a client is made correctly from any listings and under  *)
(* any rules: rules and decoders keep channels well formed, sorting has a  *)
(* consistent order, duplicates lose none that is better, and rules see    *)
(* the tracks of all sources.                                              *)
(***************************************************************************)
EXTENDS PlaylistStreamer, ChannelMergeProofs, FiniteSetTheorems, DataInduction

-----------------------------------------------------------------------------
(* Fields, templates and rules of single channels. *)

LEMMA FieldType ==
  ASSUME NEW ch \in Channel, NEW sel \in Selector
  PROVE  GetFieldValue(ch, sel) \in Maybe(Values)
  <1>1. /\ ch.name \in Values /\ ch.uri \in Values
        /\ ch.attrs \in Fields(AttrKeys) /\ ch.tags \in Fields(TagKeys)
    BY DEF Channel, URI
  <1>2. CASE sel \in [type : {"name", "url"}, key : {""}]
    BY <1>1, <1>2 DEF GetFieldValue, Maybe
  <1>3. CASE sel \in [type : {"attr"}, key : AttrKeys]
    BY <1>1, <1>3 DEF GetFieldValue, Fields
  <1>4. CASE sel \in [type : {"tag"}, key : TagKeys]
    BY <1>1, <1>4 DEF GetFieldValue, Fields
  <1> QED
    BY <1>2, <1>3, <1>4 DEF Selector

\* What no rule changes in a channel.
Same(ch, c) == c.pl = ch.pl /\ c.removed = ch.removed /\ c.priority = ch.priority

LEMMA SetFieldType ==
  ASSUME NEW ch \in Channel, NEW sel \in Selector, NEW value \in Values, ~Invalid(sel, value)
  PROVE  SetField(ch, sel, value) \in Channel /\ Same(ch, SetField(ch, sel, value))
  <1>1. value \in Maybe(Values)
    BY DEF Maybe
  <1>2. CASE sel \in [type : {"name", "url"}, key : {""}]
    BY <1>2 DEF SetField, Channel, Same, Invalid, URI
  <1>3. CASE sel \in [type : {"attr"}, key : AttrKeys]
    BY <1>1, <1>3 DEF SetField, Channel, Fields, Same
  <1>4. CASE sel \in [type : {"tag"}, key : TagKeys]
    BY <1>1, <1>4 DEF SetField, Channel, Fields, Same
  <1> QED
    BY <1>2, <1>3, <1>4 DEF Selector

LEMMA RenderType ==
  ASSUME NEW template \in Template, NEW ch \in Channel, NEW base \in Values
  PROVE  Render(template, ch, base) \in Maybe(Values)
  <1>1. CASE template \in [kind : {"text"}, text : Values]
    BY <1>1 DEF Render, Maybe
  <1>2. CASE template \in [kind : {"field"}, selector : Selector]
    <2>1. GetFieldValue(ch, template.selector) \in Maybe(Values)
      BY <1>2, FieldType
    <2> QED
      BY <1>2, <2>1, ValuesAssumption DEF Render, OrEmpty, Maybe
  <1>3. CASE template \in [kind : {"baseName", "broken"}]
    BY <1>3 DEF Render, Maybe
  <1> QED
    BY <1>1, <1>2, <1>3 DEF Template

\* Setting a field to what a template yields fails or keeps the channel's type.
LEMMA SetRendered ==
  ASSUME NEW ch \in Channel, NEW sel \in Selector, NEW value \in Maybe(Values), ~Invalid(sel, value)
  PROVE  SetField(ch, sel, value) \in Channel /\ Same(ch, SetField(ch, sel, value))
  BY SetFieldType DEF Invalid, Maybe

\* A channel of the same playlist, or a failure.
Kin(ch) == {c \in Channel : c.pl = ch.pl} \cup {Absent}

LEMMA ChannelRuleType ==
  ASSUME NEW ch \in Channel, NEW rule \in ChannelRule, NEW client
  PROVE  processChannelRule(ch, rule, client) \in Kin(ch)
  <1> DEFINE value == Render(rule.template, ch, "")
             sel == rule.selector
  <1>1. /\ rule.selector \in Selector /\ rule.template \in Template
        /\ rule.kind \in {"set_field", "remove_field", "remove_channel", "mark_hidden"}
    BY DEF ChannelRule
  <1>2. value \in Maybe(Values)
    BY <1>1, RenderType, ValuesAssumption
  <1>3. CASE ~Applies(ch, rule, client)
    BY <1>3 DEF processChannelRule, Kin
  <1>4. CASE Applies(ch, rule, client) /\ rule.kind = "remove_channel"
    <2>1. processChannelRule(ch, rule, client) = [ch EXCEPT !.removed = TRUE]
      BY <1>4 DEF processChannelRule
    <2> QED
      BY <2>1 DEF Channel, Kin
  <1>5. CASE Applies(ch, rule, client) /\ rule.kind = "mark_hidden"
    <2>1. processChannelRule(ch, rule, client) = [ch EXCEPT !.hidden = TRUE]
      BY <1>5 DEF processChannelRule
    <2> QED
      BY <2>1 DEF Channel, Kin
  <1>6. CASE Applies(ch, rule, client) /\ rule.kind = "set_field"
    <2>1. processChannelRule(ch, rule, client) =
             IF Invalid(sel, value) THEN Absent ELSE SetField(ch, sel, value)
      BY <1>6 DEF processChannelRule
    <2> HIDE DEF value
    <2>2. ~Invalid(sel, value) =>
            SetField(ch, sel, value) \in Channel /\ Same(ch, SetField(ch, sel, value))
      BY <1>1, <1>2, SetRendered
    <2> QED
      BY <2>1, <2>2 DEF Kin, Same
  <1>7. CASE Applies(ch, rule, client) /\ rule.kind = "remove_field"
    <2>1. \/ processChannelRule(ch, rule, client) = ch
          \/ /\ sel.key \in AttrKeys
             /\ processChannelRule(ch, rule, client) = [ch EXCEPT !.attrs[sel.key] = Absent]
      BY <1>7 DEF processChannelRule
    <2>2. sel.key \in AttrKeys => [ch EXCEPT !.attrs[sel.key] = Absent] \in Kin(ch)
      BY DEF Channel, Fields, Maybe, Kin
    <2> QED
      BY <2>1, <2>2 DEF Kin
  <1> QED
    BY <1>1, <1>3, <1>4, <1>5, <1>6, <1>7

\* The next channel of the recursion over the rules, and that it stays within K.
Ruled(c, rule, client) == IF c = Absent THEN Absent ELSE processChannelRule(c, rule, client)
StaysIn(K, n, rs, client) == \A c \in K, k \in 1 .. n : Ruled(c, rs[k], client) \in K

LEMMA RulesRecursion ==
  ASSUME NEW K, NEW ch \in K, NEW n \in Nat, NEW rs, NEW client, StaysIn(K, n, rs, client)
  PROVE  \E r \in [0 .. n -> K] :
            r = [k \in 0 .. n |-> IF k = 0 THEN ch ELSE Ruled(r[k - 1], rs[k], client)]
  <1>1. PICK F \in [K \X (1 .. n) -> K] :
           \A c \in K, k \in 1 .. n : F[<<c, k>>] = Ruled(c, rs[k], client)
    <2> DEFINE F == [p \in K \X (1 .. n) |-> Ruled(p[1], rs[p[2]], client)]
    <2>1. /\ F \in [K \X (1 .. n) -> K]
          /\ \A c \in K, k \in 1 .. n : F[<<c, k>>] = Ruled(c, rs[k], client)
      BY DEF StaysIn
    <2> QED
      BY <2>1
  <1>2. PICK r \in [0 .. n -> K] : r[0] = ch /\ \A k \in 1 .. n : r[k] = F[<<r[k - 1], k>>]
    <2>1. HasIteration(K, ch, n, F)
      BY Iterated
    <2> QED
      BY <2>1 DEF HasIteration
  <1>3. ASSUME NEW k \in 1 .. n
        PROVE  r[k] = Ruled(r[k - 1], rs[k], client)
    <2>1. k - 1 \in 0 .. n
      OBVIOUS
    <2>2. r[k - 1] \in K
      BY <1>2, <2>1
    <2> QED
      BY <1>1, <1>2, <2>2
  <1>4. r = [k \in 0 .. n |-> IF k = 0 THEN ch ELSE Ruled(r[k - 1], rs[k], client)]
    <2>1. \A k \in 0 .. n : r[k] = IF k = 0 THEN ch ELSE Ruled(r[k - 1], rs[k], client)
      <3>1. \A k \in 0 .. n : k # 0 => k \in 1 .. n
        OBVIOUS
      <3> QED
        BY <1>2, <1>3, <3>1
    <2> QED
      BY <2>1
  <1> QED
    BY <1>4

\* processChannel: whatever the rules do, the channel stays one of its playlist.
LEMMA ChannelRulesType ==
  ASSUME NEW ch \in Channel, NEW rs \in Seq(ChannelRule), NEW client
  PROVE  ApplyChannelRules(ch, rs, client) \in Kin(ch)
  <1> DEFINE n == Len(rs)
  <1>1. n \in Nat /\ \A k \in 1 .. n : rs[k] \in ChannelRule
    BY LenProperties, ElementOfSeq
  <1>2. StaysIn(Kin(ch), n, rs, client)
    <2> SUFFICES ASSUME NEW c \in Kin(ch), NEW k \in 1 .. n
                 PROVE  Ruled(c, rs[k], client) \in Kin(ch)
      BY DEF StaysIn
    <2>1. CASE c = Absent
      BY <2>1 DEF Ruled, Kin
    <2>2. CASE c # Absent
      <3>1. c \in Channel /\ c.pl = ch.pl
        BY <2>2 DEF Kin
      <3>2. processChannelRule(c, rs[k], client) \in Kin(c)
        BY <1>1, <3>1, ChannelRuleType
      <3> QED
        BY <2>2, <3>1, <3>2 DEF Ruled, Kin
    <2> QED
      BY <2>1, <2>2
  <1>3. ch \in Kin(ch)
    BY DEF Kin
  <1>4. \E r \in [0 .. n -> Kin(ch)] :
           r = [k \in 0 .. n |-> IF k = 0 THEN ch ELSE Ruled(r[k - 1], rs[k], client)]
    BY <1>1, <1>2, <1>3, RulesRecursion
  <1>5. PICK r : /\ r = [k \in 0 .. n |-> IF k = 0 THEN ch ELSE Ruled(r[k - 1], rs[k], client)]
                 /\ ApplyChannelRules(ch, rs, client) = r[n]
    BY <1>4 DEF ApplyChannelRules, Ruled
  <1> HIDE DEF n
  <1>6. r[0] = ch /\ \A k \in 1 .. n : r[k] = Ruled(r[k - 1], rs[k], client)
    BY <1>1, <1>5
  <1>7. \A k \in 0 .. n : r[k] \in Kin(ch)
    <2>1. \A k \in 1 .. n : r[k - 1] \in Kin(ch) => r[k] \in Kin(ch)
      BY <1>2, <1>6 DEF StaysIn
    <2>2. r[0] \in Kin(ch)
      BY <1>3, <1>6
    <2> QED
      BY <1>1, <2>1, <2>2, Kept
  <1> QED
    BY <1>1, <1>5, <1>7

-----------------------------------------------------------------------------
(* Duplicates. *)

LEMMA ReplaceType ==
  ASSUME NEW value \in Values, NEW pattern \in Pattern
  PROVE  ReplaceAllString(value, pattern) \in Values
  BY DEF ReplaceAllString, Pattern

\* The recursion over the patterns.
LEMMA PatternsRecursion ==
  ASSUME NEW value \in Values, NEW ps \in Seq(Pattern), NEW n, n = Len(ps)
  PROVE  \E r \in [0 .. n -> Values] :
            r = [k \in 0 .. n |-> IF k = 0 THEN value ELSE ReplaceAllString(r[k - 1], ps[k])]
  <1>1. n \in Nat /\ \A k \in 1 .. n : ps[k] \in Pattern
    BY LenProperties, ElementOfSeq
  <1>2. PICK F \in [Values \X (1 .. n) -> Values] :
           \A v \in Values, k \in 1 .. n : F[<<v, k>>] = ReplaceAllString(v, ps[k])
    <2> DEFINE F == [p \in Values \X (1 .. n) |-> ReplaceAllString(p[1], ps[p[2]])]
    <2>1. \A v \in Values, k \in 1 .. n : ReplaceAllString(v, ps[k]) \in Values
      BY <1>1, ReplaceType
    <2>2. /\ F \in [Values \X (1 .. n) -> Values]
          /\ \A v \in Values, k \in 1 .. n : F[<<v, k>>] = ReplaceAllString(v, ps[k])
      BY <2>1
    <2> QED
      BY <2>2
  <1>3. PICK r \in [0 .. n -> Values] :
           r[0] = value /\ \A k \in 1 .. n : r[k] = F[<<r[k - 1], k>>]
    <2>1. HasIteration(Values, value, n, F)
      BY <1>1, Iterated
    <2> QED
      BY <2>1 DEF HasIteration
  <1>4. ASSUME NEW k \in 1 .. n
        PROVE  r[k] = ReplaceAllString(r[k - 1], ps[k])
    <2>1. k - 1 \in 0 .. n
      BY <1>1
    <2>2. r[k - 1] \in Values
      BY <1>3, <2>1
    <2> QED
      BY <1>2, <1>3, <2>2
  <1>5. \A k \in 0 .. n : r[k] = IF k = 0 THEN value ELSE ReplaceAllString(r[k - 1], ps[k])
    <2>1. \A k \in 0 .. n : k # 0 => k \in 1 .. n
      BY <1>1
    <2> QED
      BY <1>3, <1>4, <2>1
  <1> QED
    BY <1>5

LEMMA BaseNameType ==
  ASSUME NEW ch \in Channel, NEW rule \in DuplicatesRule
  PROVE  extractBaseName(ch, rule) \in Values
  <1> DEFINE value == GetFieldValue(ch, rule.selector)
             n == Len(rule.patterns)
  <1>1. rule.selector \in Selector /\ rule.patterns \in Seq(Pattern)
    BY DEF DuplicatesRule
  <1>2. value \in Maybe(Values)
    BY <1>1, FieldType
  <1>3. CASE value \in {Absent, ""}
    BY <1>3, ValuesAssumption DEF extractBaseName
  <1>4. CASE value \notin {Absent, ""}
    <2>1. value \in Values
      BY <1>2, <1>4 DEF Maybe
    <2>2. \E r \in [0 .. n -> Values] :
             r = [k \in 0 .. n |->
                     IF k = 0 THEN value ELSE ReplaceAllString(r[k - 1], rule.patterns[k])]
      BY <1>1, <2>1, PatternsRecursion
    <2>3. PICK r : /\ r = [k \in 0 .. n |->
                             IF k = 0 THEN value ELSE ReplaceAllString(r[k - 1], rule.patterns[k])]
                   /\ extractBaseName(ch, rule) = r[n]
      BY <1>4, <2>2 DEF extractBaseName
    <2>4. n \in Nat /\ \A k \in 1 .. n : rule.patterns[k] \in Pattern
      BY <1>1, LenProperties, ElementOfSeq
    <2> HIDE DEF n, value
    <2>5. r[0] = value /\ \A k \in 1 .. n : r[k] = ReplaceAllString(r[k - 1], rule.patterns[k])
      BY <2>3, <2>4
    <2>6. \A k \in 1 .. n : r[k - 1] \in Values => r[k] \in Values
      BY <2>4, <2>5, ReplaceType
    <2>7. \A k \in 0 .. n : r[k] \in Values
      BY <2>1, <2>4, <2>5, <2>6, Kept
    <2> QED
      BY <2>3, <2>4, <2>7
  <1> QED
    BY <1>3, <1>4

\* The priority that the patterns give is a natural number.
LEMMA PrioritisedType ==
  ASSUME NEW ch \in Channel, NEW rule \in DuplicatesRule
  PROVE  /\ Prioritised(ch, rule) \in Channel
         /\ Prioritised(ch, rule).pl = ch.pl /\ Prioritised(ch, rule).removed = ch.removed
  <1> DEFINE n == Len(rule.patterns)
             value == GetFieldValue(ch, rule.selector)
             empties == {k \in 1 .. n : rule.patterns[k].empty}
             emptyPrio == IF empties = {} THEN 0 ELSE n + 1 - Max(empties)
             prios == IF value \in {Absent, ""} THEN {}
                      ELSE {n + 1 - k : k \in {j \in 1 .. n : MatchString(rule.patterns[j], value)}}
             others == prios \ {emptyPrio}
             prio == IF others # {} THEN Max(others) ELSE emptyPrio
  <1>1. n \in Nat
    BY LenProperties DEF DuplicatesRule
  <1>2. Prioritised(ch, rule) = IF prios = {} THEN ch ELSE [ch EXCEPT !.priority = prio]
    BY DEF Prioritised
  <1> HIDE DEF n, value
  <1>3. emptyPrio \in Nat
    <2>1. empties \in SUBSET (0 .. n)
      BY <1>1
    <2>2. empties # {} => Max(empties) \in empties
      <3> HIDE DEF empties
      <3> QED
        BY <1>1, <2>1, MaxIsGreatest
    <2> QED
      BY <1>1, <2>2
  <1>4. others \in SUBSET (0 .. n)
    <2>1. \A k \in 1 .. n : n + 1 - k \in 0 .. n
      BY <1>1
    <2> QED
      BY <2>1
  <1> HIDE DEF emptyPrio, others
  <1>5. prio \in Nat
    <2>1. others # {} => Max(others) \in others
      BY <1>1, <1>4, MaxIsGreatest
    <2>2. CASE others # {}
      <3>1. Max(others) \in 0 .. n
        BY <1>4, <2>1, <2>2
      <3> QED
        BY <1>1, <2>2, <3>1
    <2>3. CASE others = {}
      BY <1>3, <2>3
    <2> QED
      BY <2>2, <2>3
  <1> HIDE DEF prio, prios
  <1>6. [ch EXCEPT !.priority = prio] \in Channel
    BY <1>5 DEF Channel
  <1> QED
    BY <1>2, <1>6 DEF Channel

\* Groups are disjoint, as they are named by the base name of their channels.
LEMMA GroupsDisjoint ==
  ASSUME NEW st, NEW rule
  PROVE  /\ \A g \in GroupChannels(st, rule) : g \subseteq DOMAIN st
         /\ \A g, h \in GroupChannels(st, rule) : \A i : i \in g /\ i \in h => g = h
  BY DEF GroupChannels

Chosen(bests, groups, i) == CHOOSE b \in bests : \E g \in groups : {i, b} \subseteq g

AreBests(bests, matched, groups) == bests \in Choices({Bests(matched, g) : g \in groups})

\* Each channel of a group is processed with the same best channel of its group.
LEMMA OneBest ==
  ASSUME NEW st, NEW rule, NEW matched, NEW groups, groups = GroupChannels(st, rule),
         NEW bests, AreBests(bests, matched, groups), NEW g \in groups
  PROVE  \E best \in Bests(matched, g) : \A i \in g : Chosen(bests, groups, i) = best
  <1> DEFINE Ts == {Bests(matched, h) : h \in groups}
  <1>1. PICK f \in [Ts -> UNION Ts] : (\A T \in Ts : f[T] \in T) /\ bests = Range(f)
    BY DEF AreBests, Choices
  <1>2. \A T \in Ts : f[T] \in T /\ f[T] \in bests
    BY <1>1 DEF Range
  <1>3. \A b \in bests : \E h \in groups : b \in Bests(matched, h) /\ b = f[Bests(matched, h)]
    BY <1>1 DEF Range
  <1> HIDE DEF Ts
  <1>4. Bests(matched, g) \in Ts
    BY DEF Ts
  <1> DEFINE best == f[Bests(matched, g)]
  <1>5. best \in Bests(matched, g) /\ best \in bests
    BY <1>2, <1>4
  <1>6. \A h \in groups : Bests(matched, h) \subseteq h
    BY DEF Bests
  <1>7. ASSUME NEW i \in g
        PROVE  Chosen(bests, groups, i) = best
    <2>1. {i, best} \subseteq g
      BY <1>5, <1>6
    <2>2. ASSUME NEW b \in bests, \E h \in groups : {i, b} \subseteq h
          PROVE  b = best
      <3>1. PICK h \in groups : {i, b} \subseteq h
        BY <2>2
      <3>2. b \in g
        BY <3>1, GroupsDisjoint
      <3>3. PICK k \in groups : b \in Bests(matched, k) /\ b = f[Bests(matched, k)]
        BY <1>3
      <3>4. k = g
        BY <1>6, <3>2, <3>3, GroupsDisjoint
      <3> QED
        BY <3>3, <3>4
    <2> HIDE DEF best
    <2> QED
      BY <1>5, <2>1, <2>2 DEF Chosen
  <1> QED
    BY <1>5, <1>7

\* MatchGroups: only priorities change.
LEMMA MatchedType ==
  ASSUME NEW st \in Seq(Channel), NEW rule \in DuplicatesRule
  PROVE  /\ DOMAIN MatchGroups(st, rule) = DOMAIN st
         /\ \A i \in DOMAIN st : /\ MatchGroups(st, rule)[i] \in Channel
                                 /\ MatchGroups(st, rule)[i].pl = st[i].pl
                                 /\ MatchGroups(st, rule)[i].removed = st[i].removed
  <1> SUFFICES ASSUME NEW i \in DOMAIN st
               PROVE  /\ MatchGroups(st, rule)[i] \in Channel
                      /\ MatchGroups(st, rule)[i].pl = st[i].pl
                      /\ MatchGroups(st, rule)[i].removed = st[i].removed
    BY DEF MatchGroups
  <1>1. st[i] \in Channel
    BY LenProperties, ElementOfSeq
  <1>2. MatchGroups(st, rule)[i] \in {st[i], Prioritised(st[i], rule)}
    BY DEF MatchGroups
  <1> QED
    BY <1>1, <1>2, PrioritisedType

\* FinalValue fails or keeps what does not depend on the value.
LEMMA FinalValueType ==
  ASSUME NEW st, NEW rule \in DuplicatesRule, NEW i, NEW best,
         st[i] \in Channel, st[best] \in Channel
  PROVE  \/ FinalValue(st, rule, i, best) = Absent
         \/ /\ FinalValue(st, rule, i, best) \in Channel
            /\ Same(st[i], FinalValue(st, rule, i, best))
  <1> DEFINE sel == rule.final.selector
             value == Render(rule.final.template, st[best], extractBaseName(st[best], rule))
  <1>1. FinalValue(st, rule, i, best) =
           IF rule.final = Absent THEN st[i]
           ELSE IF Invalid(sel, value) THEN Absent ELSE SetField(st[i], sel, value)
    BY DEF FinalValue
  <1>2. CASE rule.final = Absent
    BY <1>1, <1>2 DEF Same
  <1>3. CASE rule.final # Absent
    <2>1. rule.final.selector \in Selector /\ rule.final.template \in Template
      BY <1>3 DEF DuplicatesRule, Maybe
    <2>2. value \in Maybe(Values)
      BY <2>1, BaseNameType, RenderType
    <2> HIDE DEF value
    <2>3. ~Invalid(sel, value) => /\ SetField(st[i], sel, value) \in Channel
                                  /\ Same(st[i], SetField(st[i], sel, value))
      BY <2>1, <2>2, SetRendered
    <2> QED
      BY <1>1, <1>3, <2>3
  <1> QED
    BY <1>2, <1>3

LEMMA MergeChannelType ==
  ASSUME NEW st, NEW rule \in DuplicatesRule, NEW i \in DOMAIN st, NEW best \in DOMAIN st,
         st[i] \in Channel, st[best] \in Channel
  PROVE  \/ MergeChannel(st, rule, i, best) = Absent
         \/ /\ MergeChannel(st, rule, i, best) \in Channel
            /\ Same(st[i], MergeChannel(st, rule, i, best))
  <1> DEFINE id == st[best].attrs["tvg-id"]
             tvg == IF id = Absent THEN st[i].attrs["tvg-id"] ELSE id
             ch == [st[i] EXCEPT !.attrs["tvg-id"] = tvg]
             same == [st EXCEPT ![i].attrs["tvg-id"] = IF id = Absent THEN @ ELSE id]
  <1>1. MergeChannel(st, rule, i, best) = FinalValue(same, rule, i, best)
    BY DEF MergeChannel
  <1>2. tvg \in Maybe(Values)
    BY ValuesAssumption DEF Channel, Fields
  <1>3. same[i] = ch /\ same[best] \in {ch, st[best]}
    OBVIOUS
  <1>4. ch \in Channel /\ Same(st[i], ch)
    <2> HIDE DEF tvg
    <2> QED
      BY <1>2, ValuesAssumption DEF Channel, Fields, Same
  <1> HIDE DEF same, ch
  <1>5. same[i] \in Channel /\ same[best] \in Channel
    BY <1>3, <1>4
  <1>6. \/ FinalValue(same, rule, i, best) = Absent
        \/ /\ FinalValue(same, rule, i, best) \in Channel
           /\ Same(same[i], FinalValue(same, rule, i, best))
    BY <1>5, FinalValueType
  <1> QED
    BY <1>1, <1>3, <1>4, <1>6 DEF Same

\* A store of the same channels as far as their playlists go, place by place.
AlongWith(st, t) ==
    t \in Seq(Channel) /\ Len(t) = Len(st) /\ \A i \in 1 .. Len(st) : t[i].pl = st[i].pl

\* What Deduplicated makes of a channel of a group.
Processed(st, rule, i, best) ==
    IF rule.kind = "merge_duplicates"
    THEN MergeChannel(MatchGroups(st, rule), rule, i, best)
    ELSE RemoveDuplicate(MatchGroups(st, rule), rule, i, best)

\* A store without failures that may come of a rule about duplicates: each group has
\* one best channel, by which its channels are processed, and no other one changes.
LEMMA DeduplicatedStore ==
  ASSUME NEW st \in Seq(Channel), NEW rule \in DuplicatesRule,
         NEW t \in Deduplicated(st, rule), t # Absent
  PROVE  /\ DOMAIN t = DOMAIN st /\ t = [i \in DOMAIN st |-> t[i]]
         /\ \A i \in DOMAIN st : t[i] # Absent
         /\ \A g \in GroupChannels(st, rule) :
               \E best \in Bests(MatchGroups(st, rule), g) :
                  \A i \in g : t[i] = Processed(st, rule, i, best)
         /\ \A i \in DOMAIN st :
               (~\E g \in GroupChannels(st, rule) : i \in g) => t[i] = st[i]
  <1> DEFINE matched == MatchGroups(st, rule)
             groups == GroupChannels(st, rule)
             processed(bests) ==
                [i \in DOMAIN st |->
                    IF \E g \in groups : i \in g
                    THEN Processed(st, rule, i, Chosen(bests, groups, i))
                    ELSE st[i]]
  <1>1. PICK bests \in Choices({Bests(matched, g) : g \in groups}) :
           t = IF \E i \in DOMAIN st : processed(bests)[i] = Absent THEN Absent
               ELSE processed(bests)
    BY DEF Deduplicated, Processed, Chosen
  <1>2. t = processed(bests) /\ \A i \in DOMAIN st : t[i] # Absent
    BY <1>1
  <1>3. ASSUME NEW g \in groups
        PROVE  \E best \in Bests(matched, g) : \A i \in g : t[i] = Processed(st, rule, i, best)
    <2>1. PICK best \in Bests(matched, g) : \A i \in g : Chosen(bests, groups, i) = best
      <3> HIDE DEF processed, matched
      <3>1. groups = GroupChannels(st, rule) /\ AreBests(bests, matched, groups)
        BY DEF AreBests
      <3> HIDE DEF groups
      <3> QED
        BY <3>1, OneBest
    <2>2. \A i \in g : i \in DOMAIN st
      BY GroupsDisjoint
    <2> HIDE DEF groups, matched
    <2>3. \A i \in g : t[i] = Processed(st, rule, i, best)
      BY <1>2, <2>1, <2>2
    <2> QED
      BY <2>3
  <1> QED
    BY <1>2, <1>3

LEMMA ProcessedType ==
  ASSUME NEW st \in Seq(Channel), NEW rule \in DuplicatesRule,
         NEW g \in GroupChannels(st, rule), NEW i \in g, NEW best \in g,
         Processed(st, rule, i, best) # Absent
  PROVE  /\ Processed(st, rule, i, best) \in Channel
         /\ Processed(st, rule, i, best).pl = st[i].pl
         /\ Processed(st, rule, i, best).priority = MatchGroups(st, rule)[i].priority
         /\ rule.kind = "remove_duplicates" =>
               Processed(st, rule, i, best).removed = IF i = best THEN st[i].removed ELSE TRUE
  <1> DEFINE matched == MatchGroups(st, rule)
  <1>1. i \in DOMAIN st /\ best \in DOMAIN st
    BY GroupsDisjoint
  <1>2. /\ i \in DOMAIN matched /\ best \in DOMAIN matched
        /\ matched[i] \in Channel /\ matched[best] \in Channel
        /\ matched[i].pl = st[i].pl /\ matched[i].removed = st[i].removed
    BY <1>1, MatchedType
  <1> HIDE DEF matched
  <1>3. CASE rule.kind = "merge_duplicates"
    <2>1. Processed(st, rule, i, best) = MergeChannel(matched, rule, i, best)
      BY <1>3 DEF Processed, matched
    <2> QED
      BY <1>2, <1>3, <2>1, MergeChannelType DEF Same, matched
  <1>4. CASE rule.kind # "merge_duplicates" /\ i = best
    <2>1. Processed(st, rule, i, best) = FinalValue(matched, rule, i, best)
      BY <1>4 DEF Processed, RemoveDuplicate, matched
    <2> QED
      BY <1>2, <1>4, <2>1, FinalValueType DEF Same, matched
  <1>5. CASE rule.kind # "merge_duplicates" /\ i # best
    <2>1. Processed(st, rule, i, best) = [matched[i] EXCEPT !.removed = TRUE]
      BY <1>5 DEF Processed, RemoveDuplicate, matched
    <2>2. /\ [matched[i] EXCEPT !.removed = TRUE] \in Channel
          /\ [matched[i] EXCEPT !.removed = TRUE].pl = matched[i].pl
          /\ [matched[i] EXCEPT !.removed = TRUE].priority = matched[i].priority
          /\ [matched[i] EXCEPT !.removed = TRUE].removed = TRUE
      BY <1>2 DEF Channel
    <2> QED
      BY <1>2, <1>5, <2>1, <2>2 DEF matched
  <1> QED
    BY <1>3, <1>4, <1>5

LEMMA DeduplicatedType ==
  ASSUME NEW st \in Seq(Channel), NEW rule \in DuplicatesRule,
         NEW t \in Deduplicated(st, rule), t # Absent
  PROVE  AlongWith(st, t)
  <1>1. /\ t = [i \in DOMAIN st |-> t[i]]
        /\ \A i \in DOMAIN st : t[i] # Absent
        /\ \A g \in GroupChannels(st, rule) :
              \E best \in Bests(MatchGroups(st, rule), g) :
                 \A i \in g : t[i] = Processed(st, rule, i, best)
        /\ \A i \in DOMAIN st :
              (~\E g \in GroupChannels(st, rule) : i \in g) => t[i] = st[i]
    BY DeduplicatedStore
  <1>2. DOMAIN st = 1 .. Len(st) /\ Len(st) \in Nat
    BY LenProperties
  <1>3. ASSUME NEW i \in 1 .. Len(st)
        PROVE  t[i] \in Channel /\ t[i].pl = st[i].pl
    <2>1. CASE \E g \in GroupChannels(st, rule) : i \in g
      <3>1. PICK g \in GroupChannels(st, rule) : i \in g
        BY <2>1
      <3>2. PICK best \in Bests(MatchGroups(st, rule), g) : t[i] = Processed(st, rule, i, best)
        BY <1>1, <3>1
      <3>3. best \in g /\ Processed(st, rule, i, best) # Absent
        BY <1>1, <1>2, <3>2 DEF Bests
      <3>4. /\ Processed(st, rule, i, best) \in Channel
            /\ Processed(st, rule, i, best).pl = st[i].pl
        BY <3>1, <3>3, ProcessedType
      <3> QED
        BY <3>2, <3>4
    <2>2. CASE ~\E g \in GroupChannels(st, rule) : i \in g
      BY <1>1, <1>2, <2>2, ElementOfSeq
    <2> QED
      BY <2>1, <2>2
  <1>4. t \in [1 .. Len(st) -> Channel]
    BY <1>1, <1>2, <1>3
  <1> QED
    BY <1>2, <1>3, <1>4 DEF AlongWith

-----------------------------------------------------------------------------
(* Sorting, and the rules of a playlist as a whole. *)

Of(st, pl) == {i \in DOMAIN st : st[i].pl = pl}

\* A store with as many channels of each playlist.
SamePlaylists(st, t) ==
    /\ t \in Seq(Channel) /\ Len(t) = Len(st)
    /\ \A pl : Cardinality(Of(t, pl)) = Cardinality(Of(st, pl))

LEMMA AlongIsSame ==
  ASSUME NEW st \in Seq(Channel), NEW t, AlongWith(st, t)
  PROVE  SamePlaylists(st, t)
  <1>1. DOMAIN st = 1 .. Len(st)
    BY LenProperties
  <1>2. t \in Seq(Channel) /\ Len(t) = Len(st) /\ DOMAIN t = 1 .. Len(t)
    BY LenProperties DEF AlongWith
  <1>3. ASSUME NEW pl
        PROVE  Of(t, pl) = Of(st, pl)
    BY <1>1, <1>2 DEF Of, AlongWith
  <1> QED
    BY <1>2, <1>3 DEF SamePlaylists

\* Putting all channels in another order loses none.
LEMMA PermutedIsSame ==
  ASSUME NEW st \in Seq(Channel), NEW p \in SetToSeqs(DOMAIN st),
         NEW t, t = [i \in DOMAIN st |-> st[p[i]]]
  PROVE  SamePlaylists(st, t)
  <1> DEFINE n == Len(st)
  <1>1. n \in Nat /\ DOMAIN st = 1 .. n /\ \A i \in 1 .. n : st[i] \in Channel
    BY LenProperties, ElementOfSeq
  <1> HIDE DEF n
  <1>2. IsFiniteSet(1 .. n) /\ Cardinality(1 .. n) = n
    <2>1. /\ IsFiniteSet(1 .. n)
          /\ Cardinality(1 .. n) = IF 1 > n THEN 0 ELSE n - 1 + 1
      BY <1>1, FS_Interval
    <2> QED
      BY <1>1, <2>1
  <1>3. p \in [1 .. n -> 1 .. n] /\ \A i, j \in 1 .. n : i # j => p[i] # p[j]
    BY <1>1, <1>2 DEF SetToSeqs
  <1>4. p \in Injection(1 .. n, 1 .. n)
    BY <1>3 DEF Injection, IsInjective
  <1>5. p \in Surjection(1 .. n, 1 .. n)
    BY <1>2, <1>4, FS_Injection
  <1>6. \A j \in 1 .. n : \E i \in 1 .. n : p[i] = j
    BY <1>5 DEF Surjection
  <1>7. t = [i \in 1 .. n |-> st[p[i]]] /\ \A i \in 1 .. n : t[i] = st[p[i]] /\ t[i] \in Channel
    BY <1>1, <1>3
  <1>8. t \in Seq(Channel) /\ Len(t) = n
    <2>1. t \in [1 .. n -> Channel]
      BY <1>7
    <2> QED
      BY <1>1, <2>1
  <1>9. ASSUME NEW pl
        PROVE  Cardinality(Of(t, pl)) = Cardinality(Of(st, pl))
    <2> DEFINE A == Of(t, pl)
               B == Of(st, pl)
               q == [i \in A |-> p[i]]
    <2>1. A = {i \in 1 .. n : st[p[i]].pl = pl} /\ B = {j \in 1 .. n : st[j].pl = pl}
      BY <1>1, <1>7 DEF Of
    <2>2. IsFiniteSet(A)
      BY <1>2, <2>1, FS_Subset
    <2> HIDE DEF A, B
    <2>3. q \in [A -> B]
      BY <1>3, <2>1
    <2>4. \A i, j \in A : q[i] = q[j] => i = j
      BY <1>3, <2>1
    <2>5. \A j \in B : \E i \in A : q[i] = j
      BY <1>6, <2>1
    <2> HIDE DEF q
    <2>6. q \in Bijection(A, B)
      BY <2>3, <2>4, <2>5 DEF Bijection, Injection, IsInjective, Surjection
    <2>7. ExistsBijection(A, B)
      BY <2>6 DEF ExistsBijection
    <2>8. Cardinality(B) = Cardinality(A)
      BY <2>2, <2>7, FS_Bijection
    <2> QED
      BY <2>8 DEF A, B
  <1> QED
    BY <1>8, <1>9 DEF SamePlaylists, n

\* Processor.Apply: no rule adds, loses or reassigns a channel.
LEMMA PlaylistRuleType ==
  ASSUME NEW st \in Seq(Channel), NEW rule \in PlaylistRule, NEW client,
         NEW t \in ApplyPlaylistRule(st, rule, client), t # Absent
  PROVE  SamePlaylists(st, t)
  <1>1. CASE ~evaluateStoreCondition(rule.condition, client)
    BY <1>1 DEF ApplyPlaylistRule, SamePlaylists
  <1>2. CASE evaluateStoreCondition(rule.condition, client) /\ rule.kind = "sort"
    <2>1. t \in SortedStores(st, rule)
      BY <1>2 DEF ApplyPlaylistRule
    <2>2. PICK p \in SetToSeqs(DOMAIN st) : t = [i \in DOMAIN st |-> st[p[i]]]
      BY <2>1 DEF SortedStores
    <2> QED
      BY <2>2, PermutedIsSame
  <1>3. CASE evaluateStoreCondition(rule.condition, client) /\ rule.kind # "sort"
    <2>1. t \in Deduplicated(st, rule)
      BY <1>3 DEF ApplyPlaylistRule
    <2>2. rule \in DuplicatesRule
      BY <1>3 DEF PlaylistRule, SortRule
    <2> QED
      BY <2>1, <2>2, DeduplicatedType, AlongIsSame
  <1> QED
    BY <1>1, <1>2, <1>3

\* remove_duplicates: the channel that stays has the highest priority of its group.
LEMMA BestStays ==
  ASSUME NEW st \in Seq(Channel), NEW rule \in DuplicatesRule, rule.kind = "remove_duplicates",
         NEW t \in Deduplicated(st, rule), t # Absent,
         NEW g \in GroupChannels(st, rule), \A i \in g : ~st[i].removed
  PROVE  \E best \in g : \A i \in g : /\ t[i].removed = (i # best)
                                      /\ t[i].priority <= t[best].priority
  <1> DEFINE matched == MatchGroups(st, rule)
  <1>1. PICK best \in Bests(matched, g) : \A i \in g : t[i] = Processed(st, rule, i, best)
    BY DeduplicatedStore
  <1>2. best \in g /\ \A i \in g : matched[i].priority <= matched[best].priority
    BY DEF Bests
  <1> HIDE DEF matched
  <1>3. ASSUME NEW i \in g
        PROVE  t[i].removed = (i # best) /\ t[i].priority = matched[i].priority
    <2>1. Processed(st, rule, i, best) # Absent
      <3>1. i \in DOMAIN st /\ t[i] # Absent
        BY GroupsDisjoint, DeduplicatedStore
      <3> QED
        BY <1>1, <3>1
    <2>2. /\ Processed(st, rule, i, best).priority = MatchGroups(st, rule)[i].priority
          /\ Processed(st, rule, i, best).removed = IF i = best THEN st[i].removed ELSE TRUE
      <3>1. best \in g
        BY <1>2
      <3>2. /\ Processed(st, rule, i, best) \in Channel
            /\ Processed(st, rule, i, best).pl = st[i].pl
            /\ Processed(st, rule, i, best).priority = MatchGroups(st, rule)[i].priority
            /\ rule.kind = "remove_duplicates" =>
                  Processed(st, rule, i, best).removed = IF i = best THEN st[i].removed ELSE TRUE
        BY <2>1, <3>1, ProcessedType, ZenonT(60)
      <3> QED
        BY <3>2
    <2>3. st[i].removed = FALSE
      <3>1. i \in DOMAIN st
        BY GroupsDisjoint
      <3>2. st[i] \in Channel
        BY <3>1, LenProperties, ElementOfSeq
      <3>3. st[i].removed \in BOOLEAN
        BY <3>2 DEF Channel
      <3> QED
        BY <3>3
    <2> QED
      BY <1>1, <2>2, <2>3 DEF matched
  <1> QED
    BY <1>2, <1>3

-----------------------------------------------------------------------------
(* The order of natural sorting: chunks are compared like numbers, if the ones that *)
(* are no digits come behind all numbers, and values like sequences of them.        *)

Code(c) == IF c.digit THEN extractNumber(c) ELSE MaxInt + 1 + c.value
Codes(a) == [i \in 1 .. Len(Chunks[a]) |-> Code(Chunks[a][i])]

Precedes(u, v) ==
    \/ \E i \in 1 .. Len(u) : i <= Len(v) /\ u[i] < v[i] /\ \A j \in 1 .. i - 1 : u[j] = v[j]
    \/ Len(u) < Len(v) /\ \A j \in 1 .. Len(u) : u[j] = v[j]

LEMMA PrecedesTotal ==
  ASSUME NEW u \in Seq(Nat), NEW v \in Seq(Nat)
  PROVE  u = v \/ Precedes(u, v) \/ Precedes(v, u)
  <1> DEFINE D == {i \in 1 .. Len(u) : i <= Len(v) /\ u[i] # v[i]}
  <1>1. /\ Len(u) \in Nat /\ Len(v) \in Nat
        /\ \A i \in 1 .. Len(u) : u[i] \in Nat
        /\ \A i \in 1 .. Len(v) : v[i] \in Nat
    BY LenProperties, ElementOfSeq
  <1>2. CASE D # {}
    <2>1. D \in SUBSET Nat
      BY <1>1
    <2>2. PICK i \in D : \A j \in D : i <= j
      <3> HIDE DEF D
      <3> QED
        BY <1>2, <2>1, LeastExists
    <2>3. i \in 1 .. Len(u) /\ i \in 1 .. Len(v) /\ u[i] # v[i]
      BY <1>1, <2>2
    <2>4. ASSUME NEW j \in 1 .. i - 1
          PROVE  u[j] = v[j]
      <3>1. j \in 1 .. Len(u) /\ j <= Len(v) /\ ~(i <= j)
        BY <1>1, <2>3
      <3> QED
        BY <2>2, <3>1
    <2>5. u[i] < v[i] \/ v[i] < u[i]
      BY <1>1, <2>3
    <2> QED
      BY <1>1, <2>3, <2>4, <2>5 DEF Precedes
  <1>3. CASE D = {}
    <2>1. \A j \in 1 .. Len(u) : j <= Len(v) => u[j] = v[j]
      BY <1>3
    <2>2. CASE Len(u) = Len(v)
      <3>1. \A j \in 1 .. Len(u) : u[j] = v[j]
        BY <1>1, <2>1, <2>2
      <3> QED
        BY <2>2, <3>1, SeqEqual
    <2>3. CASE Len(u) < Len(v)
      BY <1>1, <2>1, <2>3 DEF Precedes
    <2>4. CASE Len(v) < Len(u)
      BY <1>1, <2>1, <2>4 DEF Precedes
    <2> QED
      BY <1>1, <2>2, <2>3, <2>4
  <1> QED
    BY <1>2, <1>3

LEMMA PrecedesAsymmetric ==
  ASSUME NEW u \in Seq(Nat), NEW v \in Seq(Nat), Precedes(u, v)
  PROVE  ~Precedes(v, u)
  <1>1. /\ Len(u) \in Nat /\ Len(v) \in Nat
        /\ \A i \in 1 .. Len(u) : u[i] \in Nat
        /\ \A i \in 1 .. Len(v) : v[i] \in Nat
    BY LenProperties, ElementOfSeq
  <1>2. ASSUME NEW i \in 1 .. Len(u), i <= Len(v), u[i] < v[i],
               \A j \in 1 .. i - 1 : u[j] = v[j]
        PROVE  ~Precedes(v, u)
    <2>1. i \in 1 .. Len(v) /\ ~(v[i] < u[i]) /\ v[i] # u[i]
      BY <1>1, <1>2
    <2>2. ASSUME NEW k \in 1 .. Len(v), k <= Len(u), v[k] < u[k],
                 \A j \in 1 .. k - 1 : v[j] = u[j]
          PROVE  FALSE
      <3>1. CASE k < i
        <4>1. k \in 1 .. i - 1
          BY <1>1, <3>1
        <4> QED
          BY <1>1, <1>2, <2>2, <4>1
      <3>2. CASE i < k
        <4>1. i \in 1 .. k - 1
          BY <1>1, <3>2
        <4> QED
          BY <2>1, <2>2, <4>1
      <3> QED
        BY <1>1, <2>1, <2>2, <3>1, <3>2
    <2>3. ASSUME \A j \in 1 .. Len(v) : v[j] = u[j]
          PROVE  FALSE
      BY <2>1, <2>3
    <2> QED
      BY <2>2, <2>3 DEF Precedes
  <1>3. ASSUME Len(u) < Len(v), \A j \in 1 .. Len(u) : u[j] = v[j]
        PROVE  ~Precedes(v, u)
    <2>1. ~(Len(v) < Len(u))
      BY <1>1, <1>3
    <2>2. \A k \in 1 .. Len(v) : k <= Len(u) => ~(v[k] < u[k])
      BY <1>1, <1>3
    <2> QED
      BY <2>1, <2>2 DEF Precedes
  <1> QED
    BY <1>2, <1>3 DEF Precedes

LEMMA PrecedesTransitive ==
  ASSUME NEW u \in Seq(Nat), NEW v \in Seq(Nat), NEW w \in Seq(Nat),
         Precedes(u, v), Precedes(v, w)
  PROVE  Precedes(u, w)
  <1>1. /\ Len(u) \in Nat /\ Len(v) \in Nat /\ Len(w) \in Nat
        /\ \A i \in 1 .. Len(u) : u[i] \in Nat
        /\ \A i \in 1 .. Len(v) : v[i] \in Nat
        /\ \A i \in 1 .. Len(w) : w[i] \in Nat
    BY LenProperties, ElementOfSeq
  <1>2. ASSUME NEW i \in 1 .. Len(u), i <= Len(v), u[i] < v[i],
               \A j \in 1 .. i - 1 : u[j] = v[j]
        PROVE  Precedes(u, w)
    <2>1. ASSUME NEW k \in 1 .. Len(v), k <= Len(w), v[k] < w[k],
                 \A j \in 1 .. k - 1 : v[j] = w[j]
          PROVE  Precedes(u, w)
      <3>1. CASE k < i
        <4>1. k \in 1 .. Len(u) /\ k \in 1 .. i - 1 /\ \A j \in 1 .. k - 1 : j \in 1 .. i - 1
          BY <1>1, <3>1
        <4>2. u[k] = v[k] /\ \A j \in 1 .. k - 1 : u[j] = v[j]
          BY <1>2, <4>1
        <4> QED
          BY <2>1, <4>1, <4>2 DEF Precedes
      <3>2. CASE i <= k
        <4>1. i \in Nat /\ k \in Nat /\ 1 <= i /\ i <= Len(v)
          BY <1>1, <1>2
        <4>2. i <= Len(w)
          BY <1>1, <2>1, <3>2, <4>1
        <4>3. i \in 1 .. Len(w) /\ i \in 1 .. Len(v)
          BY <1>1, <4>1, <4>2
        <4>4. \A j \in 1 .. i - 1 : j \in 1 .. k - 1
          BY <3>2, <4>1
        <4>5. u[i] \in Nat /\ v[i] \in Nat /\ w[i] \in Nat
          BY <1>1, <4>3
        <4>6. CASE i = k
          <5>1. u[i] < w[i]
            BY <1>2, <2>1, <4>5, <4>6
          <5> QED
            BY <1>2, <2>1, <4>2, <4>4, <5>1 DEF Precedes
        <4>7. CASE i \in 1 .. k - 1
          <5>1. u[i] < w[i]
            BY <1>2, <2>1, <4>7
          <5>2. \A j \in 1 .. i - 1 : u[j] = w[j]
            BY <1>2, <2>1, <4>4
          <5> QED
            BY <4>2, <5>1, <5>2 DEF Precedes
        <4>8. i = k \/ i \in 1 .. k - 1
          BY <3>2, <4>1
        <4> QED
          BY <4>6, <4>7, <4>8
      <3> QED
        BY <3>1, <3>2
    <2>2. ASSUME Len(v) < Len(w), \A j \in 1 .. Len(v) : v[j] = w[j]
          PROVE  Precedes(u, w)
      <3>1. i <= Len(w) /\ i \in 1 .. Len(v) /\ \A j \in 1 .. i - 1 : j \in 1 .. Len(v)
        BY <1>1, <1>2, <2>2
      <3> QED
        BY <1>2, <2>2, <3>1 DEF Precedes
    <2> QED
      BY <2>1, <2>2 DEF Precedes
  <1>3. ASSUME Len(u) < Len(v), \A j \in 1 .. Len(u) : u[j] = v[j]
        PROVE  Precedes(u, w)
    <2>1. ASSUME NEW k \in 1 .. Len(v), k <= Len(w), v[k] < w[k],
                 \A j \in 1 .. k - 1 : v[j] = w[j]
          PROVE  Precedes(u, w)
      <3>1. CASE k <= Len(u)
        <4>1. k \in 1 .. Len(u) /\ \A j \in 1 .. k - 1 : j \in 1 .. Len(u)
          BY <1>1, <3>1
        <4> QED
          BY <1>3, <2>1, <4>1 DEF Precedes
      <3>2. CASE Len(u) < k
        <4>1. Len(u) < Len(w) /\ \A j \in 1 .. Len(u) : j \in 1 .. k - 1
          BY <1>1, <2>1, <3>2
        <4> QED
          BY <1>3, <2>1, <4>1 DEF Precedes
      <3> QED
        BY <1>1, <3>1, <3>2
    <2>2. ASSUME Len(v) < Len(w), \A j \in 1 .. Len(v) : v[j] = w[j]
          PROVE  Precedes(u, w)
      <3>1. Len(u) < Len(w) /\ \A j \in 1 .. Len(u) : j \in 1 .. Len(v)
        BY <1>1, <1>3, <2>2
      <3> QED
        BY <1>3, <2>2, <3>1 DEF Precedes
    <2> QED
      BY <2>1, <2>2 DEF Precedes
  <1> QED
    BY <1>2, <1>3 DEF Precedes

LEMMA CodeType ==
  ASSUME NEW c \in [digit : BOOLEAN, value : Nat]
  PROVE  /\ extractNumber(c) \in Nat /\ extractNumber(c) <= MaxInt
         /\ c.value \in Nat /\ c.digit \in BOOLEAN /\ MaxInt \in Nat
         /\ Code(c) \in Nat
  BY ChunksAssumption DEF extractNumber, Code

LEMMA CodesType ==
  ASSUME NEW a \in Values
  PROVE  /\ Codes(a) \in Seq(Nat) /\ Len(Codes(a)) = Len(Chunks[a]) /\ Len(Chunks[a]) \in Nat
         /\ DOMAIN Chunks[a] = 1 .. Len(Chunks[a])
         /\ \A i \in 1 .. Len(Chunks[a]) :
               /\ Codes(a)[i] = Code(Chunks[a][i]) /\ Codes(a)[i] \in Nat
               /\ Chunks[a][i] \in [digit : BOOLEAN, value : Nat]
  <1>1. Chunks[a] \in Seq([digit : BOOLEAN, value : Nat])
    BY ChunksAssumption
  <1>2. Len(Chunks[a]) \in Nat /\ DOMAIN Chunks[a] = 1 .. Len(Chunks[a])
    BY <1>1, LenProperties
  <1>3. \A i \in 1 .. Len(Chunks[a]) : Chunks[a][i] \in [digit : BOOLEAN, value : Nat]
    BY <1>1, ElementOfSeq
  <1>4. \A i \in 1 .. Len(Chunks[a]) : Code(Chunks[a][i]) \in Nat
    BY <1>3, CodeType
  <1>5. Codes(a) \in [1 .. Len(Chunks[a]) -> Nat]
    BY <1>4 DEF Codes
  <1>6. Codes(a) \in Seq(Nat) /\ Len(Codes(a)) = Len(Chunks[a])
    <2>1. \A n \in Nat : \A s \in [1 .. n -> Nat] : s \in Seq(Nat) /\ Len(s) = n
      OBVIOUS
    <2> QED
      BY <1>2, <1>5, <2>1
  <1>7. \A i \in 1 .. Len(Chunks[a]) : Codes(a)[i] = Code(Chunks[a][i])
    BY DEF Codes
  <1> QED
    BY <1>2, <1>3, <1>4, <1>6, <1>7

\* naturalLess, which looks for the first difference, is the order of the codes.
LEMMA NaturalOrder ==
  ASSUME NEW a \in Values, NEW b \in Values
  PROVE  naturalLess(a, b) <=> Precedes(Codes(a), Codes(b))
  <1> DEFINE x == Chunks[a]
             y == Chunks[b]
             u == Codes(a)
             v == Codes(b)
             key(c) == IF c.digit THEN extractNumber(c) ELSE c.value
             differ == {i \in DOMAIN x \cap DOMAIN y :
                           x[i].digit # y[i].digit \/ key(x[i]) # key(y[i])}
             m == Min(differ)
  <1>1. naturalLess(a, b) =
          IF differ = {} THEN Len(x) < Len(y)
          ELSE IF x[m].digit = y[m].digit THEN key(x[m]) < key(y[m]) ELSE x[m].digit
    BY DEF naturalLess
  <1>2. /\ Len(u) = Len(x) /\ Len(v) = Len(y) /\ Len(u) \in Nat /\ Len(v) \in Nat
        /\ DOMAIN x = 1 .. Len(u) /\ DOMAIN y = 1 .. Len(v)
        /\ \A i \in 1 .. Len(u) : u[i] = Code(x[i]) /\ x[i] \in [digit : BOOLEAN, value : Nat]
        /\ \A i \in 1 .. Len(v) : v[i] = Code(y[i]) /\ y[i] \in [digit : BOOLEAN, value : Nat]
        /\ \A i \in 1 .. Len(u) : u[i] \in Nat
        /\ \A i \in 1 .. Len(v) : v[i] \in Nat
    BY CodesType
  <1>3. ASSUME NEW c \in [digit : BOOLEAN, value : Nat], NEW d \in [digit : BOOLEAN, value : Nat]
        PROVE  /\ (c.digit # d.digit \/ key(c) # key(d)) <=> Code(c) # Code(d)
               /\ Code(c) # Code(d) =>
                     ((IF c.digit = d.digit THEN key(c) < key(d) ELSE c.digit) <=> Code(c) < Code(d))
    BY CodeType DEF Code
  <1>4. differ = {i \in 1 .. Len(u) : i <= Len(v) /\ u[i] # v[i]}
    <2>1. \A i : i \in DOMAIN x \cap DOMAIN y <=> i \in 1 .. Len(u) /\ i <= Len(v)
      BY <1>2
    <2>2. \A i \in DOMAIN x \cap DOMAIN y :
             (x[i].digit # y[i].digit \/ key(x[i]) # key(y[i])) <=> u[i] # v[i]
      <3> HIDE DEF key
      <3>1. ASSUME NEW i \in DOMAIN x \cap DOMAIN y
            PROVE  (x[i].digit # y[i].digit \/ key(x[i]) # key(y[i])) <=> u[i] # v[i]
        <4>1. /\ x[i] \in [digit : BOOLEAN, value : Nat] /\ y[i] \in [digit : BOOLEAN, value : Nat]
              /\ u[i] = Code(x[i]) /\ v[i] = Code(y[i])
          BY <1>2
        <4> QED
          BY <1>3, <4>1
      <3> QED
        BY <3>1
    <2> HIDE DEF x, y, u, v, key
    <2> QED
      BY <2>1, <2>2
  <1>5. CASE differ = {}
    <2>1. \A i \in 1 .. Len(u) : i <= Len(v) => u[i] = v[i]
      BY <1>4, <1>5
    <2>2. naturalLess(a, b) <=> Len(u) < Len(v)
      BY <1>1, <1>2, <1>5
    <2>3. Len(u) < Len(v) => \A i \in 1 .. Len(u) : u[i] = v[i]
      BY <1>2, <2>1
    <2> HIDE DEF u, v
    <2>4. Precedes(u, v) <=> Len(u) < Len(v)
      BY <1>2, <2>1, <2>3 DEF Precedes
    <2> QED
      BY <2>2, <2>4 DEF u, v
  <1>6. CASE differ # {}
    <2>1. differ \in SUBSET Nat
      <3>1. \A i \in 1 .. Len(u) : i \in Nat
        BY <1>2
      <3> HIDE DEF u, v, differ
      <3> QED
        BY <1>4, <3>1
    <2>2. m \in differ /\ \A i \in differ : m <= i
      <3> HIDE DEF differ
      <3> QED
        BY <1>6, <2>1, MinIsLeast
    <2>3. naturalLess(a, b) <=>
            IF x[m].digit = y[m].digit THEN key(x[m]) < key(y[m]) ELSE x[m].digit
      BY <1>1, <1>6
    <2> HIDE DEF differ, m, key
    <2>4. m \in 1 .. Len(u) /\ m <= Len(v) /\ u[m] # v[m] /\ m \in 1 .. Len(v) /\ m \in Nat
      BY <1>2, <1>4, <2>2
    <2>5. naturalLess(a, b) <=> u[m] < v[m]
      <3>1. /\ x[m] \in [digit : BOOLEAN, value : Nat] /\ y[m] \in [digit : BOOLEAN, value : Nat]
            /\ u[m] = Code(x[m]) /\ v[m] = Code(y[m])
        BY <1>2, <2>4
      <3> QED
        BY <1>3, <2>3, <2>4, <3>1
    <2> HIDE DEF u, v
    <2>6. ASSUME u[m] < v[m]
          PROVE  Precedes(u, v)
      <3>1. ASSUME NEW j \in 1 .. m - 1
            PROVE  u[j] = v[j]
        <4>1. j \in 1 .. Len(u) /\ j <= Len(v) /\ ~(m <= j)
          BY <1>2, <2>4
        <4>2. j \notin differ
          BY <2>2, <4>1
        <4> QED
          BY <1>4, <4>1, <4>2
      <3> QED
        BY <2>4, <2>6, <3>1 DEF Precedes
    <2>7. ASSUME Precedes(u, v)
          PROVE  u[m] < v[m]
      <3>1. ~(Len(u) < Len(v) /\ \A j \in 1 .. Len(u) : u[j] = v[j])
        BY <2>4
      <3>2. PICK i \in 1 .. Len(u) : i <= Len(v) /\ u[i] < v[i] /\ \A j \in 1 .. i - 1 : u[j] = v[j]
        BY <2>7, <3>1 DEF Precedes
      <3>3. i \in Nat /\ i \in 1 .. Len(v) /\ u[i] \in Nat /\ v[i] \in Nat
        BY <1>2, <3>2
      <3>4. i \in differ
        BY <1>4, <3>2, <3>3
      <3>5. m <= i
        BY <2>2, <3>4
      <3>6. m \notin 1 .. i - 1
        BY <2>4, <3>2
      <3>7. m = i
        BY <2>4, <3>3, <3>5, <3>6
      <3> QED
        BY <3>2, <3>7
    <2> QED
      BY <2>5, <2>6, <2>7 DEF u, v
  <1> QED
    BY <1>5, <1>6

\* A pattern's place, or the number of patterns.
LEMMA OrderPriorityType ==
  ASSUME NEW order \in Seq(Pattern), NEW value
  PROVE  OrderPriority(order, value) \in Nat
  <1> DEFINE matching == {k \in DOMAIN order : ~order[k].empty /\ MatchString(order[k], value)}
             empties  == {k \in DOMAIN order : order[k].empty}
  <1>1. Len(order) \in Nat /\ DOMAIN order = 1 .. Len(order)
    BY LenProperties
  <1>2. \A S \in SUBSET (1 .. Len(order)) : S # {} => Min(S) - 1 \in Nat
    <2>1. ASSUME NEW S \in SUBSET (1 .. Len(order)), S # {}
          PROVE  Min(S) - 1 \in Nat
      <3>1. S \in SUBSET Nat
        BY <1>1
      <3>2. Min(S) \in S
        BY <2>1, <3>1, MinIsLeast
      <3>3. \A k \in 1 .. Len(order) : k - 1 \in Nat
        BY <1>1
      <3> QED
        BY <3>2, <3>3
    <2> QED
      BY <2>1
  <1>3. matching \in SUBSET (1 .. Len(order)) /\ empties \in SUBSET (1 .. Len(order))
    BY <1>1
  <1>4. OrderPriority(order, value) =
          IF value = Absent THEN Len(order)
          ELSE IF matching # {} THEN Min(matching) - 1
          ELSE IF empties # {} THEN Min(empties) - 1
          ELSE Len(order)
    BY DEF OrderPriority
  <1> HIDE DEF matching, empties
  <1> QED
    BY <1>1, <1>2, <1>3, <1>4

Rank(rule, ch) == OrderPriority(rule.order, GetFieldValue(ch, rule.selector))

\* How a channel with rank p and value x compares with one with rank q and value y.
Before(p, x, q, y) ==
    p < q \/ (p = q /\ x # Absent /\ (y = Absent \/ Precedes(Codes(x), Codes(y))))

LEMMA ChannelLessMeans ==
  ASSUME NEW rule \in SortRule, NEW a \in Channel, NEW b \in Channel
  PROVE  /\ Rank(rule, a) \in Nat /\ Rank(rule, b) \in Nat
         /\ GetFieldValue(a, rule.selector) \in Maybe(Values)
         /\ GetFieldValue(b, rule.selector) \in Maybe(Values)
         /\ ChannelLess(rule, a, b) <=>
               Before(Rank(rule, a), GetFieldValue(a, rule.selector),
                      Rank(rule, b), GetFieldValue(b, rule.selector))
  <1> DEFINE x == GetFieldValue(a, rule.selector)
             y == GetFieldValue(b, rule.selector)
             p == Rank(rule, a)
             q == Rank(rule, b)
  <1>1. rule.selector \in Selector /\ rule.order \in Seq(Pattern)
    BY DEF SortRule
  <1>2. x \in Maybe(Values) /\ y \in Maybe(Values)
    BY <1>1, FieldType
  <1>3. p \in Nat /\ q \in Nat
    BY <1>1, OrderPriorityType DEF Rank
  <1>4. ChannelLess(rule, a, b) =
          IF p # q THEN p < q ELSE x # Absent /\ (y = Absent \/ naturalLess(x, y))
    BY DEF ChannelLess, Rank
  <1>5. x # Absent /\ y # Absent => (naturalLess(x, y) <=> Precedes(Codes(x), Codes(y)))
    BY <1>2, NaturalOrder DEF Maybe
  <1> HIDE DEF x, y, p, q
  <1>6. ChannelLess(rule, a, b) <=> Before(p, x, q, y)
    <2>1. CASE p # q
      BY <1>3, <1>4, <2>1 DEF Before
    <2>2. CASE p = q
      <3>1. ~(p < q)
        BY <1>3, <2>2
      <3> QED
        BY <1>4, <1>5, <2>2, <3>1 DEF Before
    <2> QED
      BY <2>1, <2>2
  <1> QED
    BY <1>2, <1>3, <1>6 DEF x, y, p, q

\* Neither comes before the other if and only if nothing tells them apart.
LEMMA TiedMeans ==
  ASSUME NEW p \in Nat, NEW x \in Maybe(Values), NEW q \in Nat, NEW y \in Maybe(Values)
  PROVE  /\ ~(Before(p, x, q, y) /\ Before(q, y, p, x))
         /\ ~Before(p, x, q, y) /\ ~Before(q, y, p, x) <=>
               p = q /\ (x = Absent <=> y = Absent) /\ (x # Absent => Codes(x) = Codes(y))
  <1>1. CASE p # q
    <2>1. (p < q /\ ~(q < p)) \/ (q < p /\ ~(p < q))
      BY <1>1
    <2> QED
      BY <1>1, <2>1 DEF Before
  <1>2. CASE p = q /\ (x = Absent \/ y = Absent)
    <2>1. ~(p < q) /\ ~(q < p)
      BY <1>2
    <2> QED
      BY <1>2, <2>1 DEF Before
  <1>3. CASE p = q /\ x # Absent /\ y # Absent
    <2>1. ~(p < q) /\ ~(q < p)
      BY <1>3
    <2>2. Codes(x) \in Seq(Nat) /\ Codes(y) \in Seq(Nat)
      BY <1>3, CodesType DEF Maybe
    <2>3. ~(Precedes(Codes(x), Codes(y)) /\ Precedes(Codes(y), Codes(x)))
      BY <2>2, PrecedesAsymmetric
    <2>4. \/ Codes(x) = Codes(y)
          \/ Precedes(Codes(x), Codes(y))
          \/ Precedes(Codes(y), Codes(x))
      BY <2>2, PrecedesTotal
    <2> QED
      BY <1>3, <2>1, <2>3, <2>4 DEF Before
  <1> QED
    BY <1>1, <1>2, <1>3

LEMMA BeforeTransitive ==
  ASSUME NEW p \in Nat, NEW x \in Maybe(Values), NEW q \in Nat, NEW y \in Maybe(Values),
         NEW r \in Nat, NEW z \in Maybe(Values), Before(p, x, q, y), Before(q, y, r, z)
  PROVE  Before(p, x, r, z)
  <1>1. CASE p < q \/ q < r
    <2>1. p <= q /\ q <= r
      BY DEF Before
    <2>2. p < r
      BY <1>1, <2>1
    <2> QED
      BY <2>2 DEF Before
  <1>2. CASE p = q /\ q = r
    <2>1. /\ x # Absent /\ (y = Absent \/ Precedes(Codes(x), Codes(y)))
          /\ y # Absent /\ (z = Absent \/ Precedes(Codes(y), Codes(z)))
      BY <1>2 DEF Before
    <2>2. CASE z = Absent
      BY <1>2, <2>1, <2>2 DEF Before
    <2>3. CASE z # Absent
      <3>1. Codes(x) \in Seq(Nat) /\ Codes(y) \in Seq(Nat) /\ Codes(z) \in Seq(Nat)
        BY <2>1, <2>3, CodesType DEF Maybe
      <3>2. Precedes(Codes(x), Codes(z))
        BY <2>1, <2>3, <3>1, PrecedesTransitive
      <3> QED
        BY <1>2, <2>1, <3>2 DEF Before
    <2> QED
      BY <2>2, <2>3
  <1> QED
    BY <1>1, <1>2 DEF Before

\* The comparison of any three channels is one that sort.Slice can work with.
LEMMA ChannelOrder ==
  ASSUME NEW rule \in SortRule, NEW a \in Channel, NEW b \in Channel, NEW c \in Channel
  PROVE  /\ ~(ChannelLess(rule, a, b) /\ ChannelLess(rule, b, a))
         /\ ChannelLess(rule, a, b) /\ ChannelLess(rule, b, c) => ChannelLess(rule, a, c)
         /\ /\ ~ChannelLess(rule, a, b) /\ ~ChannelLess(rule, b, a)
            /\ ~ChannelLess(rule, b, c) /\ ~ChannelLess(rule, c, b)
            => ~ChannelLess(rule, a, c) /\ ~ChannelLess(rule, c, a)
  <1> DEFINE x == GetFieldValue(a, rule.selector)
             y == GetFieldValue(b, rule.selector)
             z == GetFieldValue(c, rule.selector)
             p == Rank(rule, a)
             q == Rank(rule, b)
             r == Rank(rule, c)
  <1>1. /\ p \in Nat /\ q \in Nat /\ r \in Nat
        /\ x \in Maybe(Values) /\ y \in Maybe(Values) /\ z \in Maybe(Values)
        /\ ChannelLess(rule, a, b) <=> Before(p, x, q, y)
        /\ ChannelLess(rule, b, a) <=> Before(q, y, p, x)
        /\ ChannelLess(rule, b, c) <=> Before(q, y, r, z)
        /\ ChannelLess(rule, c, b) <=> Before(r, z, q, y)
        /\ ChannelLess(rule, a, c) <=> Before(p, x, r, z)
        /\ ChannelLess(rule, c, a) <=> Before(r, z, p, x)
    BY ChannelLessMeans
  <1> HIDE DEF x, y, z, p, q, r
  <1>2. ~(Before(p, x, q, y) /\ Before(q, y, p, x))
    BY <1>1, TiedMeans
  <1>3. Before(p, x, q, y) /\ Before(q, y, r, z) => Before(p, x, r, z)
    BY <1>1, BeforeTransitive
  <1>4. /\ ~Before(p, x, q, y) /\ ~Before(q, y, p, x)
        /\ ~Before(q, y, r, z) /\ ~Before(r, z, q, y)
        => ~Before(p, x, r, z) /\ ~Before(r, z, p, x)
    <2>1. ASSUME ~Before(p, x, q, y), ~Before(q, y, p, x),
                 ~Before(q, y, r, z), ~Before(r, z, q, y)
          PROVE  ~Before(p, x, r, z) /\ ~Before(r, z, p, x)
      <3>1. p = q /\ (x = Absent <=> y = Absent) /\ (x # Absent => Codes(x) = Codes(y))
        BY <1>1, <2>1, TiedMeans
      <3>2. q = r /\ (y = Absent <=> z = Absent) /\ (y # Absent => Codes(y) = Codes(z))
        BY <1>1, <2>1, TiedMeans
      <3>3. p = r /\ (x = Absent <=> z = Absent) /\ (x # Absent => Codes(x) = Codes(z))
        BY <3>1, <3>2
      <3> QED
        BY <1>1, <3>3, TiedMeans
    <2> QED
      BY <2>1
  <1> QED
    BY <1>1, <1>2, <1>3, <1>4

-----------------------------------------------------------------------------
(* The tracks of a listing and the channels that are made of them. *)

Elements == Track \cup {Rejected}

LEMMA NewChannelType ==
  ASSUME NEW track \in Track, NEW pl \in Playlists
  PROVE  /\ ensureTvgID(NewChannel(track, pl)) \in Channel
         /\ ensureTvgID(NewChannel(track, pl)).pl = pl
  <1> DEFINE ch == NewChannel(track, pl)
  <1>1. ch \in Channel /\ ch.pl = pl
    BY DEF NewChannel, Track, Channel
  <1> HIDE DEF ch
  <1>2. ch.attrs["tvg-name"] \in Maybe(Values) /\ ch.name \in Values
    BY <1>1, ValuesAssumption DEF Channel, Fields
  <1> DEFINE v == IF ch.attrs["tvg-name"] \notin {Absent, ""} THEN ch.attrs["tvg-name"] ELSE ch.name
  <1>3. v \in Values
    BY <1>2 DEF Maybe
  <1> HIDE DEF v
  <1>4. HashID[v] \in Maybe(Values)
    BY <1>3, LinksAssumption DEF Maybe
  <1>5. [ch EXCEPT !.attrs["tvg-id"] = HashID[v]] \in Channel
    BY <1>1, <1>4 DEF Channel, Fields
  <1>6. [ch EXCEPT !.attrs["tvg-id"] = HashID[v]].pl = ch.pl
    BY <1>1 DEF Channel
  <1>7. ensureTvgID(ch) = IF ch.attrs["tvg-id"] \notin {Absent, ""} THEN ch
                          ELSE [ch EXCEPT !.attrs["tvg-id"] = HashID[v]]
    BY DEF ensureTvgID, v
  <1>8. ensureTvgID(ch) \in Channel /\ ensureTvgID(ch).pl = pl
    BY <1>1, <1>5, <1>6, <1>7
  <1> QED
    BY <1>8 DEF ch

\* The decoder between two lines.
DecoderState == [header : BOOLEAN, track : Maybe(Track), items : Seq(Elements)]

LEMMA ParsedType ==
  ASSUME NEW line \in [kind : {"extinf"}, attrs : Fields(AttrKeys), parts : Seq(Values)]
  PROVE  parseExtInfLine(line) \in Track
  <1>1. line.parts \in Seq(Values) /\ line.attrs \in Fields(AttrKeys)
    OBVIOUS
  <1>2. Len(line.parts) \in Nat /\ \A k \in 1 .. Len(line.parts) : line.parts[k] \in Values
    BY <1>1, LenProperties, ElementOfSeq
  <1> DEFINE name == CASE Len(line.parts) > 1 -> line.parts[Len(line.parts)]
                       [] Len(line.parts) = 1 /\ line.attrs = NoAttrs -> line.parts[1]
                       [] OTHER -> ""
  <1>3. name \in Values
    <2>1. CASE Len(line.parts) > 1
      <3>1. Len(line.parts) \in 1 .. Len(line.parts) /\ Len(line.parts) # 1
        BY <1>2, <2>1
      <3>2. line.parts[Len(line.parts)] \in Values
        BY <1>2, <3>1
      <3> QED
        BY <2>1, <3>1, <3>2
    <2>2. CASE Len(line.parts) = 1 /\ line.attrs = NoAttrs
      <3>1. ~(Len(line.parts) > 1) /\ 1 \in 1 .. Len(line.parts)
        BY <2>2
      <3>2. line.parts[1] \in Values
        BY <1>2, <3>1
      <3> QED
        BY <2>2, <3>1, <3>2
    <2>3. CASE ~(Len(line.parts) > 1) /\ ~(Len(line.parts) = 1 /\ line.attrs = NoAttrs)
      BY <2>3, ValuesAssumption
    <2> QED
      BY <2>1, <2>2, <2>3
  <1>4. NoTags \in Fields(TagKeys)
    BY DEF NoTags, Fields, Maybe
  <1>5. parseExtInfLine(line) =
          [kind |-> "track", uri |-> "", attrs |-> line.attrs, tags |-> NoTags, name |-> name]
    BY DEF parseExtInfLine
  <1> HIDE DEF name
  <1>6. "" \in URI
    BY ValuesAssumption, LinksAssumption DEF URI
  <1>7. \A a \in Fields(AttrKeys), t \in Fields(TagKeys), v \in Values, u \in URI :
           [kind |-> "track", uri |-> u, attrs |-> a, tags |-> t, name |-> v] \in Track
    BY DEF Track
  <1>8. [kind |-> "track", uri |-> "", attrs |-> line.attrs, tags |-> NoTags, name |-> name]
        \in Track
    BY <1>1, <1>3, <1>4, <1>6, <1>7, Zenon
  <1> QED
    BY <1>5, <1>8, Zenon

LEMMA DecodeType ==
  ASSUME NEW d \in DecoderState, NEW line \in Line
  PROVE  Decode(d, line) \in DecoderState
  <1> DEFINE failed == [d EXCEPT !.items = Append(@, Rejected), !.track = Absent]
             tagged == [d.track EXCEPT !.tags[line.key] = line.value]
             found  == [d.track EXCEPT !.uri = line.value]
  <1>1. d.items \in Seq(Elements) /\ d.track \in Maybe(Track) /\ d.header \in BOOLEAN
    BY DEF DecoderState
  <1>2. Absent \in Maybe(Track) /\ Rejected \in Elements
    BY DEF Maybe, Elements
  <1>3. Append(d.items, Rejected) \in Seq(Elements)
    BY <1>1, <1>2, AppendProperties
  <1>4. failed \in DecoderState
    BY <1>2, <1>3 DEF DecoderState
  <1>5. CASE ~d.header
    <2>1. [d EXCEPT !.header = TRUE] \in DecoderState
      BY DEF DecoderState
    <2>2. Decode(d, line) = IF line.kind = "header" THEN [d EXCEPT !.header = TRUE] ELSE failed
      BY <1>5 DEF Decode
    <2> HIDE DEF failed
    <2> QED
      BY <1>4, <2>1, <2>2
  <1>6. CASE d.header /\ line.kind = "extinf"
    <2>1. line \in [kind : {"extinf"}, attrs : Fields(AttrKeys), parts : Seq(Values)]
      BY <1>6 DEF Line
    <2>2. parseExtInfLine(line) \in Maybe(Track)
      BY <2>1, ParsedType DEF Maybe
    <2>3. [d EXCEPT !.track = parseExtInfLine(line)] \in DecoderState
      BY <2>2 DEF DecoderState
    <2> QED
      BY <1>6, <2>3 DEF Decode
  <1>7. CASE d.header /\ line.kind = "badExtinf"
    BY <1>4, <1>7 DEF Decode
  <1>8. CASE d.header /\ d.track # Absent /\ line.kind = "tag" /\ line.key \in Whitelisted
    <2>1. line.value \in Maybe(Values)
      BY <1>8 DEF Line, Maybe
    <2>2. d.track \in Track
      BY <1>1, <1>8 DEF Maybe
    <2>3. tagged \in Maybe(Track)
      BY <2>1, <2>2 DEF Track, Fields, Maybe
    <2> HIDE DEF tagged
    <2>4. [d EXCEPT !.track = tagged] \in DecoderState
      BY <2>3 DEF DecoderState
    <2> QED
      BY <1>8, <2>4 DEF Decode, tagged
  <1>9. CASE d.header /\ d.track # Absent /\ line.kind = "uri"
    <2>1. line.value \in Values
      BY <1>9 DEF Line
    <2>2. d.track \in Track
      BY <1>1, <1>9 DEF Maybe
    <2>3. line.value \notin BadURLs => found \in Elements
      BY <2>1, <2>2 DEF Track, Elements, URI
    <2> HIDE DEF found
    <2>4. line.value \notin BadURLs => Append(d.items, found) \in Seq(Elements)
      BY <1>1, <2>3, AppendProperties
    <2>5. line.value \notin BadURLs =>
            [d EXCEPT !.items = Append(d.items, found), !.track = Absent] \in DecoderState
      BY <1>2, <2>4 DEF DecoderState
    <2>6. Decode(d, line) =
            IF line.value \in BadURLs THEN failed
            ELSE [d EXCEPT !.items = Append(d.items, found), !.track = Absent]
      BY <1>9 DEF Decode, found
    <2> HIDE DEF failed
    <2> QED
      BY <1>4, <2>5, <2>6
  <1>10. CASE /\ d.header /\ line.kind \notin {"extinf", "badExtinf"}
              /\ ~(d.track # Absent /\ line.kind = "tag" /\ line.key \in Whitelisted)
              /\ ~(d.track # Absent /\ line.kind = "uri")
    <2>1. Decode(d, line) = d
      BY <1>10 DEF Decode
    <2> QED
      BY <2>1
  <1> QED
    BY <1>1, <1>5, <1>6, <1>7, <1>8, <1>9, <1>10

\* The recursion over the lines.
LEMMA LinesRecursion ==
  ASSUME NEW s \in DecoderState, NEW lines \in Seq(Line), NEW n, n = Len(lines)
  PROVE  \E r \in [0 .. n -> DecoderState] :
            r = [k \in 0 .. n |-> IF k = 0 THEN s ELSE Decode(r[k - 1], lines[k])]
  <1>1. n \in Nat /\ \A k \in 1 .. n : lines[k] \in Line
    BY LenProperties, ElementOfSeq
  <1>2. PICK F \in [DecoderState \X (1 .. n) -> DecoderState] :
           \A d \in DecoderState, k \in 1 .. n : F[<<d, k>>] = Decode(d, lines[k])
    <2> DEFINE F == [p \in DecoderState \X (1 .. n) |-> Decode(p[1], lines[p[2]])]
    <2>1. \A d \in DecoderState, k \in 1 .. n : Decode(d, lines[k]) \in DecoderState
      BY <1>1, DecodeType
    <2>2. /\ F \in [DecoderState \X (1 .. n) -> DecoderState]
          /\ \A d \in DecoderState, k \in 1 .. n : F[<<d, k>>] = Decode(d, lines[k])
      BY <2>1
    <2> QED
      BY <2>2
  <1>3. PICK r \in [0 .. n -> DecoderState] :
           r[0] = s /\ \A k \in 1 .. n : r[k] = F[<<r[k - 1], k>>]
    <2>1. HasIteration(DecoderState, s, n, F)
      BY <1>1, Iterated
    <2> QED
      BY <2>1 DEF HasIteration
  <1>4. ASSUME NEW k \in 1 .. n
        PROVE  r[k] = Decode(r[k - 1], lines[k])
    <2>1. k - 1 \in 0 .. n
      BY <1>1
    <2>2. r[k - 1] \in DecoderState
      BY <1>3, <2>1
    <2> QED
      BY <1>2, <1>3, <2>2
  <1>5. \A k \in 0 .. n : r[k] = IF k = 0 THEN s ELSE Decode(r[k - 1], lines[k])
    <2>1. \A k \in 0 .. n : k # 0 => k \in 1 .. n
      BY <1>1
    <2> QED
      BY <1>3, <1>4, <2>1
  <1> QED
    BY <1>5

\* What a decoder yields are tracks and errors.
LEMMA DecodedType ==
  ASSUME NEW lines \in Seq(Line)
  PROVE  Decoded(lines) \in Seq(Elements)
  <1> DEFINE n == Len(lines)
             s == [header |-> FALSE, track |-> Absent, items |-> <<>>]
  <1>1. s \in DecoderState
    BY DEF DecoderState, Maybe
  <1>2. \E r \in [0 .. n -> DecoderState] :
           r = [k \in 0 .. n |-> IF k = 0 THEN s ELSE Decode(r[k - 1], lines[k])]
    <2> HIDE DEF s
    <2> QED
      BY <1>1, LinesRecursion
  <1>3. PICK r : /\ r = [k \in 0 .. n |-> IF k = 0 THEN s ELSE Decode(r[k - 1], lines[k])]
                 /\ Decoded(lines) = r[n].items
    BY <1>2 DEF Decoded
  <1>4. n \in Nat /\ \A k \in 1 .. n : lines[k] \in Line
    BY LenProperties, ElementOfSeq
  <1> HIDE DEF n, s
  <1>5. r[0] = s /\ \A k \in 1 .. n : r[k] = Decode(r[k - 1], lines[k])
    BY <1>3, <1>4
  <1>6. \A k \in 1 .. n : r[k - 1] \in DecoderState => r[k] \in DecoderState
    BY <1>4, <1>5, DecodeType
  <1>7. \A k \in 0 .. n : r[k] \in DecoderState
    BY <1>1, <1>4, <1>5, <1>6, Kept
  <1>8. r[n] \in DecoderState
    BY <1>4, <1>7
  <1> QED
    BY <1>3, <1>8 DEF DecoderState

-----------------------------------------------------------------------------
(* Decoders yield tracks only, the channels are well formed at all times, and *)
(* merging begins with a processor that has met none of them.                 *)

DecodersTyped ==
    /\ feed \in [Sources -> Seq(Elements)]
    /\ pos \in [Sources -> Nat]
    /\ itemBuffer \in [Sources -> Seq(Track)]
    /\ batch \in [Sources -> Seq(Track)]
    /\ err \in [Sources -> {"none", "eof", "failed"}]
    /\ buffering \in [Sources -> {"none", "select", "decode"}]
    /\ \A d \in Sources : pos[d] <= Len(feed[d])

PhasesTyped ==
    /\ phase \in {"start", "tracks", "close", "channelRules", "playlistRules", "merge",
                  "write", "returned"}
    /\ result \in {"none", "ok", "cut", "error"}
    /\ idx \in Nat \ {0}
    /\ phase = "tracks" => idx \in Sources

StoreKept ==
    /\ MergeInv
    /\ phase \notin {"merge", "write", "returned"} => MergeStart
    /\ rules \in Seq(PlaylistRule \X STRING)

PlaylistInv == DecodersTyped /\ PhasesTyped /\ StoreKept

-----------------------------------------------------------------------------
(* The decoders are read one after the other; what the consumer has not taken of a *)
(* decoder is still in its buffers, until one fails.                               *)

Made(d) == pos[d] - Len(itemBuffer[d]) - Len(batch[d])
Numbered(f, pl) == UNION {{d} \X (1 .. f[d]) : d \in SourcesOf(pl)}
TakenOf(pl) == Numbered([d \in Sources |-> Made(d)], pl)

SourceRead(d) ==
    /\ Made(d) \in Nat
    /\ buffering[d] = "none" => batch[d] = <<>>
    /\ buffering[d] # "none" => err[d] = "none"
    /\ err[d] = "eof" => pos[d] = Len(feed[d])
    /\ err[d] # "failed" /\ result # "error" => \A i \in 1 .. pos[d] : feed[d][i].kind = "track"

Drained(d) ==
    /\ buffering[d] = "none" /\ itemBuffer[d] = <<>> /\ batch[d] = <<>>
    /\ err[d] # "failed"
    /\ pos[d] = Len(feed[d]) /\ \A i \in 1 .. pos[d] : feed[d][i].kind = "track"

InTurn ==
    /\ phase \notin {"close", "returned"} => result = "none"
    /\ phase = "close" => result \in {"none", "error"}
    /\ phase = "start" =>
          \A d \in Sources : d >= idx => buffering[d] = "none" /\ err[d] = "none"
    /\ phase = "tracks" => \A d \in Sources : d < idx => Drained(d)
    /\ phase = "tracks" /\ step = "read" => buffering[idx] = "none"
    /\ phase \notin {"start", "tracks"} /\ result # "error" => \A d \in Sources : Drained(d)

Counted ==
    result # "error" /\ (\A d \in Sources : err[d] # "failed") =>
        \A pl \in Playlists :
            /\ IsFiniteSet(TakenOf(pl))
            /\ Cardinality(Of(channels, pl)) = Cardinality(TakenOf(pl))

ReadInv == (\A d \in Sources : SourceRead(d)) /\ InTurn /\ Counted

-----------------------------------------------------------------------------
(* What each operation of a decoder does. *)

LEMMA TracksDiffer == \A x \in Elements : x.kind # "bad" => x \in Track /\ x.kind = "track"
  BY DEF Elements, Track, Rejected

LEMMA NextElement ==
  ASSUME DecodersTyped, NEW d \in Sources, AtElement(d)
  PROVE  /\ pos[d] + 1 \in 1 .. Len(feed[d])
         /\ Decodes(d) => Element(d) \in Track /\ feed[d][pos[d] + 1].kind = "track"
  <1>1. feed[d] \in Seq(Elements) /\ pos[d] \in Nat /\ pos[d] < Len(feed[d])
    BY DEF DecodersTyped, AtElement
  <1>2. Len(feed[d]) \in Nat
    BY <1>1, LenProperties
  <1>3. pos[d] + 1 \in 1 .. Len(feed[d])
    BY <1>1, <1>2
  <1>4. feed[d][pos[d] + 1] \in Elements
    BY <1>1, <1>3, ElementOfSeq
  <1> QED
    BY <1>3, <1>4, TracksDiffer DEF Decodes, Element

LEMMA AdvanceResult ==
  ASSUME DecodersTyped, NEW d \in Sources, AtElement(d), Advance(d)
  PROVE  /\ pos' \in [Sources -> Nat] /\ pos'[d] = pos[d] + 1
         /\ \A x \in Sources : x # d => pos'[x] = pos[x]
         /\ \A x \in Sources : pos'[x] <= Len(feed[x])
  <1>1. pos \in [Sources -> Nat] /\ pos' = [pos EXCEPT ![d] = pos[d] + 1]
    BY DEF DecodersTyped, Advance
  <1>2. pos[d] + 1 \in Nat
    BY <1>1
  <1>3. /\ pos' \in [Sources -> Nat] /\ pos'[d] = pos[d] + 1
        /\ \A x \in Sources : x # d => pos'[x] = pos[x]
    BY <1>1, <1>2
  <1>4. pos[d] + 1 <= Len(feed[d])
    BY NextElement
  <1>5. ASSUME NEW x \in Sources
        PROVE  pos'[x] <= Len(feed[x])
    BY <1>3, <1>4 DEF DecodersTyped
  <1> QED
    BY <1>3, <1>5

\* The consumer takes a track, of the buffer or of the parser.
LEMMA TakeResult ==
  ASSUME DecodersTyped, NEW d \in Sources, HasNext(d), Take(d)
  PROVE  /\ NextItem(d) \in Track
         /\ pos' \in [Sources -> Nat] /\ itemBuffer' \in [Sources -> Seq(Track)]
         /\ \A x \in Sources : pos'[x] <= Len(feed[x])
         /\ \A x \in Sources : x # d => pos'[x] = pos[x] /\ itemBuffer'[x] = itemBuffer[x]
         /\ \/ pos'[d] = pos[d] /\ Len(itemBuffer[d]) = Len(itemBuffer'[d]) + 1
            \/ /\ pos'[d] = pos[d] + 1 /\ itemBuffer'[d] = itemBuffer[d]
               /\ err[d] = "none" /\ feed[d][pos[d] + 1].kind = "track"
  <1>1. /\ pos \in [Sources -> Nat] /\ itemBuffer \in [Sources -> Seq(Track)]
        /\ \A x \in Sources : pos[x] <= Len(feed[x])
    BY DEF DecodersTyped
  <1>2. CASE itemBuffer[d] # <<>>
    <2>1. itemBuffer' = [itemBuffer EXCEPT ![d] = Tail(itemBuffer[d])] /\ pos' = pos
      BY <1>2 DEF Take, readerVars
    <2>2. /\ Head(itemBuffer[d]) \in Track /\ Tail(itemBuffer[d]) \in Seq(Track)
          /\ Len(Tail(itemBuffer[d])) = Len(itemBuffer[d]) - 1 /\ Len(itemBuffer[d]) \in Nat
      BY <1>1, <1>2, HeadTailProperties, LenProperties
    <2>3. /\ itemBuffer' \in [Sources -> Seq(Track)]
          /\ itemBuffer'[d] = Tail(itemBuffer[d])
          /\ \A x \in Sources : x # d => itemBuffer'[x] = itemBuffer[x]
      BY <1>1, <2>1, <2>2
    <2>4. Len(itemBuffer[d]) = Len(itemBuffer'[d]) + 1
      BY <2>2, <2>3
    <2> QED
      BY <1>1, <1>2, <2>1, <2>2, <2>3, <2>4 DEF NextItem
  <1>3. CASE itemBuffer[d] = <<>>
    <2>1. err[d] = "none" /\ Decodes(d) /\ Advance(d) /\ itemBuffer' = itemBuffer
      BY <1>3 DEF HasNext, Take
    <2>2. AtElement(d)
      BY <2>1 DEF Decodes
    <2>3. Element(d) \in Track /\ feed[d][pos[d] + 1].kind = "track"
      BY <2>1, <2>2, NextElement
    <2>4. /\ pos' \in [Sources -> Nat] /\ pos'[d] = pos[d] + 1
          /\ \A x \in Sources : x # d => pos'[x] = pos[x]
          /\ \A x \in Sources : pos'[x] <= Len(feed[x])
      BY <2>1, <2>2, AdvanceResult
    <2> QED
      BY <1>1, <1>3, <2>1, <2>3, <2>4 DEF NextItem
  <1> QED
    BY <1>2, <1>3

\* An error is the end, or leaves the parser where it was or behind the bad element.
LEMMA DecodeErrorResult ==
  ASSUME DecodersTyped, NEW d \in Sources, NEW e, DecodeError(d, e)
  PROVE  /\ pos' \in [Sources -> Nat]
         /\ \A x \in Sources : pos'[x] <= Len(feed[x])
         /\ \A x \in Sources : x # d => pos'[x] = pos[x]
         /\ pos'[d] = pos[d] \/ pos'[d] = pos[d] + 1
         /\ \/ e = "failed"
            \/ e = "eof" /\ pos' = pos /\ pos[d] = Len(feed[d])
  <1>1. /\ pos \in [Sources -> Nat]
        /\ \A x \in Sources : pos[x] <= Len(feed[x])
    BY DEF DecodersTyped
  <1>2. CASE pos' = pos
    BY <1>1, <1>2 DEF DecodeError
  <1>3. CASE AtElement(d) /\ e = "failed" /\ Advance(d)
    <2>1. /\ pos' \in [Sources -> Nat] /\ pos'[d] = pos[d] + 1
          /\ \A x \in Sources : x # d => pos'[x] = pos[x]
          /\ \A x \in Sources : pos'[x] <= Len(feed[x])
      BY <1>3, AdvanceResult
    <2> QED
      BY <1>3, <2>1
  <1> QED
    BY <1>2, <1>3 DEF DecodeError, readerVars

\* The consumer meets the error.
LEMMA NextErrorResult ==
  ASSUME DecodersTyped, NEW d \in Sources, NEW e, NextError(d, e)
  PROVE  /\ pos' \in [Sources -> Nat]
         /\ \A x \in Sources : pos'[x] <= Len(feed[x])
         /\ itemBuffer[d] = <<>>
         /\ \/ pos' = pos
            \/ /\ err[d] = "none" /\ pos'[d] = pos[d] + 1
               /\ \A x \in Sources : x # d => pos'[x] = pos[x]
         /\ e # "failed" => /\ pos' = pos
                            /\ err[d] = e \/ (err[d] = "none" /\ pos[d] = Len(feed[d]))
  <1>1. itemBuffer[d] = <<>>
    BY DEF NextError
  <1>2. CASE err[d] # "none" /\ e = err[d] /\ UNCHANGED readerVars
    BY <1>1, <1>2 DEF readerVars, DecodersTyped
  <1>3. CASE err[d] = "none" /\ DecodeError(d, e)
    <2>1. /\ pos' \in [Sources -> Nat]
          /\ \A x \in Sources : pos'[x] <= Len(feed[x])
          /\ \A x \in Sources : x # d => pos'[x] = pos[x]
          /\ pos'[d] = pos[d] \/ pos'[d] = pos[d] + 1
          /\ \/ e = "failed"
             \/ e = "eof" /\ pos' = pos /\ pos[d] = Len(feed[d])
      BY <1>3, DecodeErrorResult
    <2>2. CASE pos'[d] = pos[d]
      <3>1. pos \in [Sources -> Nat]
        BY DEF DecodersTyped
      <3>2. pos' = pos
        BY <2>1, <2>2, <3>1
      <3> QED
        BY <1>1, <1>3, <2>1, <3>2
    <2>3. CASE pos'[d] = pos[d] + 1
      BY <1>1, <1>3, <2>1, <2>3
    <2> QED
      BY <2>1, <2>2, <2>3
  <1> QED
    BY <1>2, <1>3 DEF NextError

LEMMA FlushResult ==
  ASSUME DecodersTyped, NEW d \in Sources, Flush(d)
  PROVE  /\ itemBuffer' \in [Sources -> Seq(Track)] /\ batch' \in [Sources -> Seq(Track)]
         /\ \A x \in Sources : x # d => itemBuffer'[x] = itemBuffer[x] /\ batch'[x] = batch[x]
         /\ batch'[d] = <<>>
         /\ Len(itemBuffer'[d]) = Len(itemBuffer[d]) + Len(batch[d])
  <1>1. itemBuffer \in [Sources -> Seq(Track)] /\ batch \in [Sources -> Seq(Track)]
    BY DEF DecodersTyped
  <1>2. /\ itemBuffer[d] \o batch[d] \in Seq(Track)
        /\ Len(itemBuffer[d] \o batch[d]) = Len(itemBuffer[d]) + Len(batch[d])
    BY <1>1, ConcatProperties
  <1>3. <<>> \in Seq(Track)
    OBVIOUS
  <1>4. /\ itemBuffer' = [itemBuffer EXCEPT ![d] = itemBuffer[d] \o batch[d]]
        /\ batch' = [batch EXCEPT ![d] = <<>>]
    BY <1>1 DEF Flush
  <1> QED
    BY <1>1, <1>2, <1>3, <1>4

\* What the goroutine of source d changes: none of the others, and not what is taken
\* of this one, unless it fails.
GoroutineDoes(d) ==
    /\ DecodersTyped'
    /\ feed' = feed /\ UNCHANGED <<mergeVars, decoding, gone, output, result>>
    /\ \A x \in Sources : x # d =>
          /\ pos'[x] = pos[x] /\ itemBuffer'[x] = itemBuffer[x] /\ batch'[x] = batch[x]
          /\ err'[x] = err[x] /\ buffering'[x] = buffering[x]
    /\ buffering[d] # "none"
    /\ buffering'[d] = "none" => batch'[d] = <<>>
    /\ buffering'[d] # "none" => err'[d] = err[d]
    /\ \/ /\ Len(itemBuffer'[d]) + Len(batch'[d]) = Len(itemBuffer[d]) + Len(batch[d]) + 1
          /\ pos'[d] = pos[d] + 1 /\ feed[d][pos[d] + 1].kind = "track"
          /\ err'[d] = err[d]
       \/ /\ Len(itemBuffer'[d]) + Len(batch'[d]) = Len(itemBuffer[d]) + Len(batch[d])
          /\ \/ pos'[d] = pos[d] /\ err'[d] = err[d]
             \/ pos'[d] = pos[d] /\ err'[d] = "eof" /\ pos[d] = Len(feed[d])
             \/ pos'[d] \in {pos[d], pos[d] + 1} /\ err'[d] = "failed"

LEMMA GoroutineResult ==
  ASSUME DecodersTyped, NEW d \in Sources, Goroutine(d)
  PROVE  GoroutineDoes(d)
  <1>1. /\ feed \in [Sources -> Seq(Elements)] /\ pos \in [Sources -> Nat]
        /\ itemBuffer \in [Sources -> Seq(Track)] /\ batch \in [Sources -> Seq(Track)]
        /\ err \in [Sources -> {"none", "eof", "failed"}]
        /\ buffering \in [Sources -> {"none", "select", "decode"}]
        /\ \A x \in Sources : pos[x] <= Len(feed[x])
    BY DEF DecodersTyped
  <1>2. UNCHANGED <<mergeVars, decoding, gone, output, result>>
    BY DEF Goroutine
  <1>3. Len(itemBuffer[d]) \in Nat /\ Len(batch[d]) \in Nat
    BY <1>1, LenProperties
  <1>4. CASE Tick(d)
    <2>1. /\ buffering[d] = "select" /\ buffering' = [buffering EXCEPT ![d] = "decode"]
          /\ feed' = feed /\ pos' = pos /\ itemBuffer' = itemBuffer /\ batch' = batch /\ err' = err
      BY <1>4 DEF Tick, readerVars
    <2>2. DecodersTyped'
      BY <1>1, <2>1 DEF DecodersTyped
    <2> QED
      BY <1>1, <1>2, <1>3, <2>1, <2>2 DEF GoroutineDoes
  <1>5. CASE BufferItem(d)
    <2>1. /\ buffering[d] = "decode" /\ Decodes(d) /\ AtElement(d) /\ Advance(d)
          /\ batch' = [batch EXCEPT ![d] = Append(batch[d], Element(d))]
          /\ feed' = feed /\ itemBuffer' = itemBuffer /\ err' = err
      BY <1>1, <1>5 DEF BufferItem, Decodes
    <2>2. \E b \in {"select", "decode"} : buffering' = [buffering EXCEPT ![d] = b]
      BY <1>5 DEF BufferItem
    <2>3. Element(d) \in Track /\ feed[d][pos[d] + 1].kind = "track"
      BY <2>1, NextElement
    <2>4. /\ pos' \in [Sources -> Nat] /\ pos'[d] = pos[d] + 1
          /\ \A x \in Sources : x # d => pos'[x] = pos[x]
          /\ \A x \in Sources : pos'[x] <= Len(feed[x])
      BY <2>1, AdvanceResult
    <2>5. /\ Append(batch[d], Element(d)) \in Seq(Track)
          /\ Len(Append(batch[d], Element(d))) = Len(batch[d]) + 1
      BY <1>1, <2>3, AppendProperties
    <2>6. /\ batch' \in [Sources -> Seq(Track)] /\ Len(batch'[d]) = Len(batch[d]) + 1
          /\ \A x \in Sources : x # d => batch'[x] = batch[x]
      BY <1>1, <2>1, <2>5
    <2>7. /\ buffering' \in [Sources -> {"none", "select", "decode"}] /\ buffering'[d] # "none"
          /\ \A x \in Sources : x # d => buffering'[x] = buffering[x]
      BY <1>1, <2>2
    <2>8. DecodersTyped'
      BY <1>1, <2>1, <2>4, <2>6, <2>7 DEF DecodersTyped
    <2>9. Len(itemBuffer'[d]) + Len(batch'[d]) = Len(itemBuffer[d]) + Len(batch[d]) + 1
      <3>1. \A a, b \in Nat : a + (b + 1) = a + b + 1
        OBVIOUS
      <3>2. Len(itemBuffer'[d]) = Len(itemBuffer[d]) /\ Len(batch'[d]) = Len(batch[d]) + 1
        BY <2>1, <2>6
      <3> QED
        BY <1>3, <3>1, <3>2
    <2> QED
      BY <1>2, <2>1, <2>3, <2>4, <2>6, <2>7, <2>8, <2>9 DEF GoroutineDoes
  <1>6. ASSUME End(d)
        PROVE  /\ itemBuffer' \in [Sources -> Seq(Track)] /\ batch' \in [Sources -> Seq(Track)]
               /\ \A x \in Sources : x # d => /\ itemBuffer'[x] = itemBuffer[x]
                                              /\ batch'[x] = batch[x]
                                              /\ buffering'[x] = buffering[x]
               /\ batch'[d] = <<>>
               /\ Len(itemBuffer'[d]) + Len(batch'[d]) = Len(itemBuffer[d]) + Len(batch[d])
               /\ buffering' \in [Sources -> {"none", "select", "decode"}]
               /\ buffering'[d] = "none"
    <2>1. /\ itemBuffer' \in [Sources -> Seq(Track)] /\ batch' \in [Sources -> Seq(Track)]
          /\ \A x \in Sources : x # d => itemBuffer'[x] = itemBuffer[x] /\ batch'[x] = batch[x]
          /\ batch'[d] = <<>>
          /\ Len(itemBuffer'[d]) = Len(itemBuffer[d]) + Len(batch[d])
      BY <1>6, FlushResult DEF End
    <2>2. buffering' = [buffering EXCEPT ![d] = "none"]
      BY <1>6 DEF End
    <2>3. Len(batch'[d]) = 0
      BY <2>1
    <2>4. Len(itemBuffer'[d]) + Len(batch'[d]) = Len(itemBuffer[d]) + Len(batch[d])
      BY <1>3, <2>1, <2>3
    <2> QED
      BY <1>1, <2>1, <2>2, <2>4
  <1>7. CASE BufferError(d)
    <2>1. /\ buffering[d] = "decode" /\ End(d) /\ feed' = feed
          /\ \E e \in {"eof", "failed"} : DecodeError(d, e) /\ err' = [err EXCEPT ![d] = e]
      BY <1>7 DEF BufferError
    <2>2. PICK e \in {"eof", "failed"} : DecodeError(d, e) /\ err' = [err EXCEPT ![d] = e]
      BY <2>1
    <2>3. /\ pos' \in [Sources -> Nat]
          /\ \A x \in Sources : pos'[x] <= Len(feed[x])
          /\ \A x \in Sources : x # d => pos'[x] = pos[x]
          /\ pos'[d] = pos[d] \/ pos'[d] = pos[d] + 1
          /\ \/ e = "failed"
             \/ e = "eof" /\ pos' = pos /\ pos[d] = Len(feed[d])
      BY <2>2, DecodeErrorResult
    <2>4. /\ err' \in [Sources -> {"none", "eof", "failed"}] /\ err'[d] = e
          /\ \A x \in Sources : x # d => err'[x] = err[x]
      BY <1>1, <2>2
    <2>5. DecodersTyped'
      BY <1>1, <1>6, <2>1, <2>3, <2>4 DEF DecodersTyped
    <2> QED
      BY <1>2, <1>6, <2>1, <2>3, <2>4, <2>5 DEF GoroutineDoes
  <1>8. CASE BufferStops(d, gone)
    <2>1. /\ buffering[d] = "select" /\ End(d)
          /\ feed' = feed /\ pos' = pos /\ err' = err
      BY <1>8 DEF BufferStops, readerVars
    <2>2. DecodersTyped'
      BY <1>1, <1>6, <2>1 DEF DecodersTyped
    <2> QED
      BY <1>2, <1>6, <2>1, <2>2 DEF GoroutineDoes
  <1> QED
    BY <1>4, <1>5, <1>7, <1>8 DEF Goroutine

-----------------------------------------------------------------------------
(* PlaylistInv holds at all times. *)

LEMMA PlaylistInitInv == Init => PlaylistInv
  <1> SUFFICES ASSUME Init PROVE PlaylistInv
    OBVIOUS
  <1>1. DecodersTyped
    <2>1. PICK listing \in Listings : feed = [d \in Sources |-> Decoded(listing[d])]
      BY DEF Init
    <2>2. \A d \in Sources : Decoded(listing[d]) \in Seq(Elements)
      <3>1. \A d \in Sources : listing[d] \in Seq(Line)
        BY ListingsAssumption
      <3> QED
        BY <3>1, DecodedType
    <2>3. feed \in [Sources -> Seq(Elements)]
      BY <2>1, <2>2
    <2>4. \A d \in Sources : Len(feed[d]) \in Nat
      BY <2>3, LenProperties
    <2>5. <<>> \in Seq(Track)
      OBVIOUS
    <2> QED
      BY <2>3, <2>4, <2>5 DEF Init, DecoderInit, DecodersTyped
  <1>2. PhasesTyped
    BY DEF Init, PhasesTyped
  <1>3. StoreKept
    <2>1. channels \in Seq(Channel) /\ MergeStart /\ rules = <<>>
      BY DEF Init
    <2>2. MergeInv
      BY <2>1, InitInv DEF MergeInit
    <2> QED
      BY <2>1, <2>2 DEF StoreKept
  <1> QED
    BY <1>1, <1>2, <1>3 DEF PlaylistInv

LEMMA DecodersStep == PlaylistInv /\ [Next]_vars => DecodersTyped'
  <1> SUFFICES ASSUME PlaylistInv, [Next]_vars PROVE DecodersTyped'
    OBVIOUS
  <1>1. /\ DecodersTyped /\ PhasesTyped
        /\ feed \in [Sources -> Seq(Elements)] /\ pos \in [Sources -> Nat]
        /\ itemBuffer \in [Sources -> Seq(Track)] /\ batch \in [Sources -> Seq(Track)]
        /\ err \in [Sources -> {"none", "eof", "failed"}]
        /\ buffering \in [Sources -> {"none", "select", "decode"}]
        /\ \A x \in Sources : pos[x] <= Len(feed[x])
    BY DEF PlaylistInv, DecodersTyped
  <1>2. CASE /\ feed' = feed /\ pos' = pos /\ itemBuffer' = itemBuffer /\ batch' = batch
             /\ err' = err /\ buffering' = buffering
    BY <1>1, <1>2 DEF DecodersTyped
  <1>3. CASE StartDecoder
    <2>1. buffering' \in [Sources -> {"none", "select", "decode"}]
      BY <1>1, <1>3 DEF StartDecoder, StartBuffering
    <2> QED
      BY <1>1, <1>3, <2>1 DEF StartDecoder, DecodersTyped
  <1>4. CASE StartFails
    <2>1. err' \in [Sources -> {"none", "eof", "failed"}]
      BY <1>1, <1>4 DEF StartFails
    <2> QED
      BY <1>1, <1>4, <2>1 DEF StartFails, readerVars, DecodersTyped
  <1>5. CASE AddTrack
    <2>1. idx \in Sources /\ HasNext(idx) /\ Take(idx)
      BY <1>1, <1>5 DEF AddTrack, Reading, PhasesTyped
    <2>2. /\ pos' \in [Sources -> Nat] /\ itemBuffer' \in [Sources -> Seq(Track)]
          /\ \A x \in Sources : pos'[x] <= Len(feed[x])
      BY <1>1, <2>1, TakeResult
    <2> QED
      BY <1>1, <1>5, <2>2 DEF AddTrack, DecodersTyped
  <1>6. CASE TracksEnd
    <2>1. idx \in Sources /\ NextError(idx, "eof")
      BY <1>1, <1>6 DEF TracksEnd, Reading, PhasesTyped
    <2>2. pos' \in [Sources -> Nat] /\ \A x \in Sources : pos'[x] <= Len(feed[x])
      BY <1>1, <2>1, NextErrorResult
    <2> QED
      BY <1>1, <1>6, <2>2 DEF TracksEnd, DecodersTyped
  <1>7. CASE ReadFails
    <2>1. idx \in Sources /\ (pos' = pos \/ NextError(idx, "failed"))
      BY <1>1, <1>7 DEF ReadFails, Reading, PhasesTyped, readerVars
    <2>2. pos' \in [Sources -> Nat] /\ \A x \in Sources : pos'[x] <= Len(feed[x])
      BY <1>1, <2>1, NextErrorResult
    <2> QED
      BY <1>1, <1>7, <2>2 DEF ReadFails, DecodersTyped
  <1>8. ASSUME NEW d \in Sources, Goroutine(d)
        PROVE  DecodersTyped'
    BY <1>1, <1>8, GoroutineResult DEF GoroutineDoes
  <1>9. CASE StartDone \/ RulesFail \/ ChannelRulesApply \/ PlaylistRuleApplies \/ RulesDone
             \/ Merge \/ Collect \/ WriteChannel \/ WriteFails \/ Written \/ ClientGone
             \/ StopBufferReturns
    BY <1>2, <1>9 DEF StartDone, RulesFail, ChannelRulesApply, PlaylistRuleApplies, RulesDone,
                      Merge, Collect, WriteChannel, WriteFails, Written, ClientGone,
                      StopBufferReturns, decoderVars, readerVars
  <1>10. CASE StopBuffer \/ Close
    BY <1>2, <1>10 DEF StopBuffer, Close, readerVars
  <1>11. CASE UNCHANGED vars
    BY <1>2, <1>11 DEF vars, decoderVars, readerVars
  <1> QED
    BY <1>3, <1>4, <1>5, <1>6, <1>7, <1>8, <1>9, <1>10, <1>11 DEF Next, WriteTo, Terminating

LEMMA PhasesStep == PlaylistInv /\ [Next]_vars => PhasesTyped'
  <1> SUFFICES ASSUME PlaylistInv, [Next]_vars PROVE PhasesTyped'
    OBVIOUS
  <1>1. PhasesTyped /\ NumSources \in Nat \ {0} /\ Sources = 1 .. NumSources
    BY SourcesAssumption DEF PlaylistInv
  <1> USE DEF PhasesTyped
  <1>2. CASE phase' = phase /\ idx' = idx /\ result' = result
    BY <1>1, <1>2
  <1>3. CASE StartDecoder
    BY <1>1, <1>3 DEF StartDecoder
  <1>4. CASE StartFails
    BY <1>1, <1>4 DEF StartFails
  <1>5. CASE StartDone
    BY <1>1, <1>5 DEF StartDone
  <1>6. CASE TracksEnd
    <2>1. CASE idx < NumSources
      <3>1. idx' = idx + 1 /\ phase' = phase /\ result' = result
        BY <1>6, <2>1 DEF TracksEnd
      <3>2. idx + 1 \in Nat \ {0} /\ idx + 1 \in Sources
        BY <1>1, <2>1
      <3> QED
        BY <1>1, <3>1, <3>2
    <2>2. CASE ~(idx < NumSources)
      <3>1. idx' = idx /\ phase' = "close" /\ result' \in {"error", "none"}
        BY <1>6, <2>2 DEF TracksEnd
      <3> QED
        BY <1>1, <3>1
    <2> QED
      BY <2>1, <2>2
  <1>7. CASE ReadFails
    BY <1>1, <1>7 DEF ReadFails
  <1>8. CASE Close
    BY <1>1, <1>8 DEF Close, output
  <1>9. CASE RulesFail
    BY <1>1, <1>9 DEF RulesFail, Fail
  <1>10. CASE ChannelRulesApply
    <2>1. idx' = idx /\ ((phase' = "playlistRules" /\ result' = result) \/ Fail)
      BY <1>10 DEF ChannelRulesApply
    <2> QED
      BY <1>1, <2>1 DEF Fail
  <1>11. CASE PlaylistRuleApplies
    <2>1. idx' = idx /\ ((phase' = phase /\ result' = result) \/ Fail)
      BY <1>11 DEF PlaylistRuleApplies
    <2> QED
      BY <1>1, <2>1 DEF Fail
  <1>12. CASE RulesDone
    BY <1>1, <1>12 DEF RulesDone
  <1>13. CASE Collect
    BY <1>1, <1>13 DEF Collect
  <1>14. CASE WriteFails
    BY <1>1, <1>14 DEF WriteFails
  <1>15. CASE Written
    BY <1>1, <1>15 DEF Written
  <1>16. CASE StopBuffer \/ StopBufferReturns \/ AddTrack \/ Merge \/ WriteChannel \/ ClientGone
    BY <1>2, <1>16 DEF StopBuffer, StopBufferReturns, AddTrack, Merge, WriteChannel, ClientGone,
                       decoding
  <1>17. CASE \E d \in Sources : Goroutine(d)
    BY <1>2, <1>17 DEF Goroutine, decoding
  <1>18. CASE UNCHANGED vars
    BY <1>2, <1>18 DEF vars, decoding
  <1> QED
    BY <1>3, <1>4, <1>5, <1>6, <1>7, <1>8, <1>9, <1>10, <1>11, <1>12, <1>13, <1>14, <1>15, <1>16,
       <1>17, <1>18 DEF Next, WriteTo, Terminating

\* The rules for channels make each of them another one of its playlist, or fail.
LEMMA ChannelRulesResult ==
  ASSUME PlaylistInv, ChannelRulesApply
  PROVE  \/ Fail /\ channels' = channels /\ rules' = rules
         \/ /\ SamePlaylists(channels, channels')
            /\ rules' \in Seq(PlaylistRule \X STRING)
            /\ phase' = "playlistRules" /\ result' = result
  <1>1. channels \in Seq(Channel)
    BY DEF PlaylistInv, StoreKept, MergeInv, MergeTypeOK
  <1>2. PICK client \in Clients :
          LET ruled == [i \in DOMAIN channels |->
                           ApplyChannelRules(channels[i], client.channelRules, client.name)] IN
          IF \E i \in DOMAIN ruled : ruled[i] = Absent
          THEN Fail /\ UNCHANGED <<channels, rules>>
          ELSE /\ channels' = ruled
               /\ rules' = [k \in DOMAIN client.playlistRules |->
                               <<client.playlistRules[k], client.name>>]
               /\ phase' = "playlistRules"
               /\ UNCHANGED result
    BY DEF ChannelRulesApply
  <1>3. PICK ruled : ruled = [i \in DOMAIN channels |->
                                 ApplyChannelRules(channels[i], client.channelRules, client.name)]
    OBVIOUS
  <1>4. IF \E i \in DOMAIN ruled : ruled[i] = Absent
        THEN Fail /\ UNCHANGED <<channels, rules>>
        ELSE /\ channels' = ruled
             /\ rules' = [k \in DOMAIN client.playlistRules |->
                             <<client.playlistRules[k], client.name>>]
             /\ phase' = "playlistRules"
             /\ UNCHANGED result
    BY <1>2, <1>3
  <1>5. CASE \E i \in DOMAIN ruled : ruled[i] = Absent
    BY <1>4, <1>5
  <1>6. CASE ~\E i \in DOMAIN ruled : ruled[i] = Absent
    <2>1. /\ client.channelRules \in Seq(ChannelRule) /\ client.playlistRules \in Seq(PlaylistRule)
          /\ client.name \in STRING
      BY ClientsAssumption
    <2>2. Len(channels) \in Nat /\ DOMAIN channels = 1 .. Len(channels)
      BY <1>1, LenProperties
    <2>3. ASSUME NEW i \in 1 .. Len(channels)
          PROVE  ruled[i] \in Channel /\ ruled[i].pl = channels[i].pl
      <3>1. channels[i] \in Channel
        BY <1>1, <2>3, ElementOfSeq
      <3>2. ApplyChannelRules(channels[i], client.channelRules, client.name) \in Kin(channels[i])
        BY <2>1, <3>1, ChannelRulesType
      <3>3. /\ ruled[i] = ApplyChannelRules(channels[i], client.channelRules, client.name)
            /\ i \in DOMAIN ruled
        BY <1>3, <2>2
      <3> QED
        BY <1>6, <3>2, <3>3 DEF Kin
    <2>4. ruled \in Seq(Channel) /\ Len(ruled) = Len(channels)
      <3>1. ruled \in [1 .. Len(channels) -> Channel]
        <4>1. DOMAIN ruled = 1 .. Len(channels) /\ ruled = [i \in DOMAIN ruled |-> ruled[i]]
          BY <1>3, <2>2
        <4> QED
          BY <2>3, <4>1
      <3>2. \A n \in Nat : \A s \in [1 .. n -> Channel] : s \in Seq(Channel) /\ Len(s) = n
        OBVIOUS
      <3> QED
        BY <2>2, <3>1, <3>2
    <2>5. AlongWith(channels, ruled)
      BY <2>3, <2>4 DEF AlongWith
    <2>6. SamePlaylists(channels, ruled)
      BY <1>1, <2>5, AlongIsSame
    <2>7. [k \in DOMAIN client.playlistRules |-> <<client.playlistRules[k], client.name>>]
          \in Seq(PlaylistRule \X STRING)
      <3>1. PICK ps, name : ps = client.playlistRules /\ name = client.name
        OBVIOUS
      <3>2. Len(ps) \in Nat /\ DOMAIN ps = 1 .. Len(ps)
            /\ \A k \in 1 .. Len(ps) : ps[k] \in PlaylistRule
        BY <2>1, <3>1, LenProperties, ElementOfSeq
      <3>3. [k \in DOMAIN ps |-> <<ps[k], name>>] \in [1 .. Len(ps) -> PlaylistRule \X STRING]
        BY <2>1, <3>1, <3>2
      <3>4. \A n \in Nat : \A s \in [1 .. n -> PlaylistRule \X STRING] :
               s \in Seq(PlaylistRule \X STRING)
        OBVIOUS
      <3> QED
        BY <3>1, <3>2, <3>3, <3>4
    <2> QED
      BY <1>4, <1>6, <2>6, <2>7
  <1> QED
    BY <1>5, <1>6

\* And so do those for the playlist, all channels taken together.
LEMMA PlaylistRuleResult ==
  ASSUME PlaylistInv, PlaylistRuleApplies
  PROVE  /\ rules' \in Seq(PlaylistRule \X STRING)
         /\ Head(rules)[1] \in PlaylistRule
         /\ \/ Fail /\ channels' = channels
            \/ /\ channels' \in ApplyPlaylistRule(channels, Head(rules)[1], Head(rules)[2])
               /\ channels' # Absent
               /\ SamePlaylists(channels, channels')
               /\ phase' = phase /\ result' = result
  <1>1. channels \in Seq(Channel) /\ rules \in Seq(PlaylistRule \X STRING)
    BY DEF PlaylistInv, StoreKept, MergeInv, MergeTypeOK
  <1>2. rules # <<>> /\ rules' = Tail(rules)
    BY DEF PlaylistRuleApplies
  <1>3. Head(rules) \in PlaylistRule \X STRING /\ rules' \in Seq(PlaylistRule \X STRING)
    BY <1>1, <1>2, HeadTailProperties
  <1>4. Head(rules)[1] \in PlaylistRule
    BY <1>3
  <1>5. PICK st \in ApplyPlaylistRule(channels, Head(rules)[1], Head(rules)[2]) :
          IF st = Absent THEN Fail /\ UNCHANGED channels
          ELSE channels' = st /\ UNCHANGED <<phase, result>>
    BY DEF PlaylistRuleApplies
  <1>6. CASE st = Absent
    BY <1>3, <1>4, <1>5, <1>6
  <1>7. CASE st # Absent
    <2>1. PICK rule, client : rule = Head(rules)[1] /\ client = Head(rules)[2]
      OBVIOUS
    <2>2. SamePlaylists(channels, st)
      BY <1>1, <1>4, <1>5, <1>7, <2>1, PlaylistRuleType
    <2> QED
      BY <1>3, <1>4, <1>5, <1>7, <2>2
  <1> QED
    BY <1>6, <1>7

LEMMA InitInvLater == MergeInit' => MergeInv'
  BY InitInv, PTL

LEMMA StoreStep == PlaylistInv /\ [Next]_vars => StoreKept'
  <1> SUFFICES ASSUME PlaylistInv, [Next]_vars PROVE StoreKept'
    OBVIOUS
  <1>1. /\ MergeInv /\ channels \in Seq(Channel) /\ rules \in Seq(PlaylistRule \X STRING)
        /\ phase \notin {"merge", "write", "returned"} => MergeStart
    BY DEF PlaylistInv, StoreKept, MergeInv, MergeTypeOK
  <1>2. UNCHANGED mergeVars => MergeInv'
    BY <1>1, NextInv
  <1>3. UNCHANGED mergeVars /\ MergeStart => MergeStart'
    BY DEF mergeVars, MergeStart
  <1>4. /\ MergeStart /\ channels' \in Seq(Channel)
        /\ UNCHANGED <<at, channelsByID, channelStreams, link>>
        => MergeInv' /\ MergeStart'
    BY InitInvLater DEF MergeStart, MergeInit
  <1>5. CASE UNCHANGED mergeVars /\ rules' = rules /\ phase' = phase
    BY <1>1, <1>2, <1>3, <1>5 DEF StoreKept
  <1>6. CASE AddTrack
    <2>1. /\ phase' = phase /\ rules' = rules /\ phase = "tracks"
          /\ channels' = Append(channels, ensureTvgID(NewChannel(NextItem(idx), PlaylistOf[idx])))
          /\ UNCHANGED <<at, channelsByID, channelStreams, link>>
          /\ HasNext(idx) /\ Take(idx)
      BY <1>6 DEF AddTrack, Reading, decoding, output
    <2>2. idx \in Sources /\ DecodersTyped
      BY <2>1 DEF PlaylistInv, PhasesTyped
    <2>3. NextItem(idx) \in Track /\ PlaylistOf[idx] \in Playlists
      BY <2>1, <2>2, TakeResult, PlaylistAssumption
    <2>4. ensureTvgID(NewChannel(NextItem(idx), PlaylistOf[idx])) \in Channel
      BY <2>3, NewChannelType
    <2>5. channels' \in Seq(Channel)
      BY <1>1, <2>1, <2>4, AppendProperties
    <2> QED
      BY <1>1, <1>4, <2>1, <2>5 DEF StoreKept
  <1>7. CASE ChannelRulesApply
    <2>1. phase = "channelRules" /\ UNCHANGED <<at, channelsByID, channelStreams, link>>
      BY <1>7 DEF ChannelRulesApply
    <2>2. CASE Fail /\ channels' = channels /\ rules' = rules
      BY <1>1, <1>4, <2>1, <2>2 DEF StoreKept
    <2>3. CASE /\ SamePlaylists(channels, channels')
               /\ rules' \in Seq(PlaylistRule \X STRING)
      BY <1>1, <1>4, <2>1, <2>3 DEF StoreKept, SamePlaylists
    <2> QED
      BY <1>7, <2>2, <2>3, ChannelRulesResult
  <1>8. CASE PlaylistRuleApplies
    <2>1. phase = "playlistRules" /\ UNCHANGED <<at, channelsByID, channelStreams, link>>
      BY <1>8 DEF PlaylistRuleApplies
    <2>2. rules' \in Seq(PlaylistRule \X STRING)
      BY <1>8, PlaylistRuleResult
    <2>3. channels' \in Seq(Channel)
      BY <1>1, <1>8, PlaylistRuleResult DEF SamePlaylists
    <2> QED
      BY <1>1, <1>4, <2>1, <2>2, <2>3 DEF StoreKept
  <1>9. CASE Merge
    <2>1. phase' = "merge" /\ rules' = rules /\ MergeStep
      BY <1>9 DEF Merge, decoding, output
    <2>2. MergeInv'
      BY <1>1, <2>1, NextInv DEF MergeNext
    <2> QED
      BY <1>1, <2>1, <2>2 DEF StoreKept
  <1>10. CASE Collect
    <2>1. phase' = "write" /\ rules' = rules /\ LinkChannels
      BY <1>10 DEF Collect
    <2>2. MergeInv'
      BY <1>1, <2>1, NextInv DEF MergeNext
    <2> QED
      BY <1>1, <2>1, <2>2 DEF StoreKept
  <1>11. CASE /\ UNCHANGED mergeVars /\ rules' = rules
              /\ phase \notin {"merge", "write", "returned"}
    BY <1>1, <1>2, <1>3, <1>11 DEF StoreKept
  <1>12. CASE /\ UNCHANGED mergeVars /\ rules' = rules
              /\ phase' \in {"merge", "write", "returned"}
    BY <1>1, <1>2, <1>12 DEF StoreKept
  <1>13. CASE StartFails \/ StartDone \/ TracksEnd \/ ReadFails \/ Close \/ RulesDone
    BY <1>11, <1>13 DEF StartFails, StartDone, TracksEnd, Reading, ReadFails, Close, RulesDone, output
  <1>14. CASE RulesFail \/ WriteFails \/ Written
    BY <1>12, <1>14 DEF RulesFail, Fail, WriteFails, Written, output
  <1>15. CASE StartDecoder \/ StopBuffer \/ StopBufferReturns \/ WriteChannel \/ ClientGone
    BY <1>5, <1>15 DEF StartDecoder, StopBuffer, StopBufferReturns, WriteChannel, ClientGone,
                       output, decoding
  <1>16. CASE \E d \in Sources : Goroutine(d)
    BY <1>5, <1>16 DEF Goroutine, output, decoding
  <1>17. CASE UNCHANGED vars
    BY <1>5, <1>17 DEF vars, output, decoding
  <1> QED
    BY <1>6, <1>7, <1>8, <1>9, <1>10, <1>13, <1>14, <1>15, <1>16, <1>17
       DEF Next, WriteTo, Terminating

\* Whatever the sources hold and the rules of the client are, all that is read of
\* decoders are tracks, all that the store holds are channels, and merging starts with
\* a new processor and keeps what its tables say.
THEOREM PlaylistInvariance == Spec => []PlaylistInv
  <1>1. PlaylistInv /\ [Next]_vars => PlaylistInv'
    BY DecodersStep, PhasesStep, StoreStep DEF PlaylistInv
  <1> QED
    BY <1>1, PlaylistInitInv, PTL DEF Spec

\* Process, in the request as a whole: whatever the rules have made of the channels,
\* no two of the result have one tvg-id, each channel that was not removed is a source of
\* one link, once, and the channel that is written is the best of its sources.
THEOREM MergedCorrect == Spec => [](OneChannelPerID /\ EverySourceOnce /\ BestSourceFirst)
  <1>1. PlaylistInv => OneChannelPerID /\ EverySourceOnce /\ BestSourceFirst
    BY DEF PlaylistInv, StoreKept, MergeInv
  <1> QED
    BY <1>1, PlaylistInvariance, PTL

\* SortProcessor: the comparison orders the channels consistently, for every rule and
\* all values, also those without the field or with numbers that overflow.
THEOREM SortCorrect == Spec => []SortConsistent
  <1>1. PlaylistInv => SortConsistent
    <2> SUFFICES ASSUME PlaylistInv, rules # <<>>, Head(rules)[1].kind = "sort",
                        NEW i \in DOMAIN channels, NEW j \in DOMAIN channels,
                        NEW k \in DOMAIN channels, NEW rule, rule = Head(rules)[1]
                 PROVE  /\ ~(ChannelLess(rule, channels[i], channels[j])
                             /\ ChannelLess(rule, channels[j], channels[i]))
                        /\ ChannelLess(rule, channels[i], channels[j])
                           /\ ChannelLess(rule, channels[j], channels[k])
                           => ChannelLess(rule, channels[i], channels[k])
                        /\ /\ ~ChannelLess(rule, channels[i], channels[j])
                           /\ ~ChannelLess(rule, channels[j], channels[i])
                           /\ ~ChannelLess(rule, channels[j], channels[k])
                           /\ ~ChannelLess(rule, channels[k], channels[j])
                           => /\ ~ChannelLess(rule, channels[i], channels[k])
                              /\ ~ChannelLess(rule, channels[k], channels[i])
      BY DEF SortConsistent
    <2>1. channels \in Seq(Channel) /\ rules \in Seq(PlaylistRule \X STRING)
      BY DEF PlaylistInv, StoreKept, MergeInv, MergeTypeOK
    <2>2. rule \in PlaylistRule
      <3>1. Head(rules) \in PlaylistRule \X STRING
        BY <2>1, HeadTailProperties
      <3> QED
        BY <3>1
    <2>3. rule \in SortRule
      BY <2>2 DEF PlaylistRule, DuplicatesRule
    <2>4. channels[i] \in Channel /\ channels[j] \in Channel /\ channels[k] \in Channel
      BY <2>1, LenProperties, ElementOfSeq
    <2> QED
      BY <2>3, <2>4, ChannelOrder
  <1> QED
    BY <1>1, PlaylistInvariance, PTL

\* remove_duplicates: one channel of a group stays, and no other has a higher priority.
THEOREM DedupCorrect == Spec => DedupKeepsBest
  <1> DEFINE Remains(g) == \E best \in g : \A i \in g :
                            /\ channels'[i].removed = (i # best)
                            /\ channels'[i].priority <= channels'[best].priority
             Step == phase = "playlistRules" /\ phase' = phase /\ rules # <<>> /\ rules' = Tail(rules)
                     /\ Deduplicates(Head(rules)[1], Head(rules)[2]) =>
                        \A g \in GroupChannels(channels, Head(rules)[1]) :
                           (\A i \in g : ~channels[i].removed) => Remains(g)
  <1>1. PlaylistInv /\ [Next]_vars => [Step]_vars
    <2> SUFFICES ASSUME PlaylistInv, Next,
                        phase = "playlistRules", phase' = phase, rules # <<>>, rules' = Tail(rules),
                        Deduplicates(Head(rules)[1], Head(rules)[2]),
                        NEW g \in GroupChannels(channels, Head(rules)[1]),
                        \A i \in g : ~channels[i].removed
                 PROVE  Remains(g)
      OBVIOUS
    <2>1. channels \in Seq(Channel) /\ rules \in Seq(PlaylistRule \X STRING)
      BY DEF PlaylistInv, StoreKept, MergeInv, MergeTypeOK
    <2>2. PlaylistRuleApplies
      <3>1. rules' # rules
        <4>1. Len(rules) \in Nat /\ Len(Tail(rules)) = Len(rules) - 1
          BY <2>1, HeadTailProperties, LenProperties
        <4>2. \A n \in Nat : n - 1 # n
          OBVIOUS
        <4>3. Len(Tail(rules)) # Len(rules)
          BY <4>1, <4>2
        <4> QED
          BY <4>3, Zenon
      <3>2. ~ClientGone /\ ~Terminating /\ ~\E d \in Sources : Goroutine(d)
        BY <3>1 DEF ClientGone, Terminating, Goroutine, output, vars
      <3> QED
        BY <3>1, <3>2 DEF Next, WriteTo, StartDecoder, StartFails, StartDone, StopBuffer,
              StopBufferReturns, AddTrack, Reading, TracksEnd, ReadFails, Close, RulesFail, Fail,
              ChannelRulesApply, RulesDone, Merge, Collect, WriteChannel, WriteFails, Written
    <2>3. PICK rule, client : rule = Head(rules)[1] /\ client = Head(rules)[2]
      OBVIOUS
    <2>4. ~Fail
      BY DEF Fail
    <2>5. rule \in PlaylistRule /\ channels' \in ApplyPlaylistRule(channels, rule, client)
          /\ channels' # Absent
      BY <2>2, <2>3, <2>4, PlaylistRuleResult
    <2>6. rule.kind = "remove_duplicates" /\ evaluateStoreCondition(rule.condition, client)
      BY <2>3 DEF Deduplicates
    <2>7. rule \in DuplicatesRule /\ channels' \in Deduplicated(channels, rule)
      BY <2>5, <2>6 DEF PlaylistRule, SortRule, ApplyPlaylistRule
    <2>8. PICK t : t = channels'
      OBVIOUS
    <2>9. \E best \in g : \A i \in g : t[i].removed = (i # best) /\ t[i].priority <= t[best].priority
      BY <2>1, <2>3, <2>5, <2>6, <2>7, <2>8, BestStays
    <2> QED
      BY <2>8, <2>9
  <1> QED
    BY <1>1, PlaylistInvariance, PTL DEF Spec, DedupKeepsBest

-----------------------------------------------------------------------------
(* ReadInv holds at all times. *)

LEMMA NumberedMember ==
  ASSUME NEW f, NEW pl, NEW p
  PROVE  p \in Numbered(f, pl) <=> \E d \in SourcesOf(pl) : \E k \in 1 .. f[d] : p = <<d, k>>
  BY DEF Numbered

LEMMA NumberedGrows ==
  ASSUME NEW f \in [Sources -> Nat], NEW g \in [Sources -> Nat], NEW e \in Sources, NEW pl,
         g[e] = f[e] + 1, \A x \in Sources : x # e => g[x] = f[x]
  PROVE  /\ PlaylistOf[e] # pl => Numbered(g, pl) = Numbered(f, pl)
         /\ PlaylistOf[e] = pl => /\ Numbered(g, pl) = Numbered(f, pl) \cup {<<e, g[e]>>}
                                  /\ <<e, g[e]>> \notin Numbered(f, pl)
  <1>1. \A d \in SourcesOf(pl) : d \in Sources /\ PlaylistOf[d] = pl
    BY DEF SourcesOf
  <1>2. f[e] \in Nat /\ 1 .. g[e] = (1 .. f[e]) \cup {g[e]} /\ g[e] \notin 1 .. f[e]
    OBVIOUS
  <1>3. CASE PlaylistOf[e] # pl
    <2>1. \A d \in SourcesOf(pl) : g[d] = f[d]
      BY <1>1, <1>3
    <2>2. \A p : p \in Numbered(g, pl) <=> p \in Numbered(f, pl)
      BY <2>1, NumberedMember
    <2> QED
      BY <1>3, <2>2
  <1>4. CASE PlaylistOf[e] = pl
    <2>1. e \in SourcesOf(pl)
      BY <1>4 DEF SourcesOf
    <2>2. \A d \in SourcesOf(pl) : d # e => g[d] = f[d]
      BY <1>1
    <2>3. ASSUME NEW p \in Numbered(g, pl)
          PROVE  p \in Numbered(f, pl) \cup {<<e, g[e]>>}
      <3>1. PICK d \in SourcesOf(pl) : \E k \in 1 .. g[d] : p = <<d, k>>
        BY <2>3, NumberedMember
      <3>2. PICK k \in 1 .. g[d] : p = <<d, k>>
        BY <3>1
      <3>3. CASE k \in 1 .. f[d]
        <4>1. p \in Numbered(f, pl)
          BY <3>2, <3>3, NumberedMember
        <4> QED
          BY <4>1
      <3>4. CASE k \notin 1 .. f[d]
        <4>1. d = e /\ k = g[e]
          BY <1>2, <2>2, <3>4
        <4> QED
          BY <3>2, <4>1
      <3> QED
        BY <3>3, <3>4
    <2>4. ASSUME NEW p \in Numbered(f, pl)
          PROVE  p \in Numbered(g, pl)
      <3>1. PICK d \in SourcesOf(pl) : \E k \in 1 .. f[d] : p = <<d, k>>
        BY <2>4, NumberedMember
      <3>2. PICK k \in 1 .. f[d] : p = <<d, k>>
        BY <3>1
      <3>3. k \in 1 .. g[d]
        BY <1>2, <2>2
      <3> QED
        BY <3>2, <3>3, NumberedMember
    <2>5. <<e, g[e]>> \in Numbered(g, pl)
      <3>1. g[e] \in 1 .. g[e]
        BY <1>2
      <3> QED
        BY <2>1, <3>1, NumberedMember
    <2>6. <<e, g[e]>> \notin Numbered(f, pl)
      <3> SUFFICES ASSUME <<e, g[e]>> \in Numbered(f, pl) PROVE FALSE
        OBVIOUS
      <3>1. PICK d \in SourcesOf(pl) : \E k \in 1 .. f[d] : <<e, g[e]>> = <<d, k>>
        BY NumberedMember
      <3>2. g[e] \in 1 .. f[e]
        BY <3>1
      <3> QED
        BY <1>2, <3>2
    <2> QED
      BY <1>4, <2>3, <2>4, <2>5, <2>6
  <1> QED
    BY <1>3, <1>4

LEMMA OfFinite ==
  ASSUME NEW st \in Seq(Channel), NEW pl
  PROVE  IsFiniteSet(Of(st, pl)) /\ Of(st, pl) \subseteq 1 .. Len(st)
  <1>1. Len(st) \in Nat /\ DOMAIN st = 1 .. Len(st)
    BY LenProperties
  <1>2. Of(st, pl) \subseteq 1 .. Len(st)
    BY <1>1 DEF Of
  <1>3. IsFiniteSet(1 .. Len(st))
    <2>1. 1 \in Int /\ Len(st) \in Int
      BY <1>1
    <2> QED
      BY <2>1, FS_Interval
  <1> QED
    BY <1>2, <1>3, FS_Subset

LEMMA OfAppended ==
  ASSUME NEW st \in Seq(Channel), NEW ch \in Channel, NEW pl
  PROVE  /\ ch.pl # pl => Of(Append(st, ch), pl) = Of(st, pl)
         /\ ch.pl = pl => /\ Of(Append(st, ch), pl) = Of(st, pl) \cup {Len(st) + 1}
                          /\ Len(st) + 1 \notin Of(st, pl)
  <1> DEFINE n == Len(st)
             t == Append(st, ch)
  <1>1. n \in Nat /\ DOMAIN st = 1 .. n
    BY LenProperties
  <1>2. t \in Seq(Channel) /\ Len(t) = n + 1 /\ t[n + 1] = ch /\ \A i \in 1 .. n : t[i] = st[i]
    BY <1>1, AppendProperties
  <1>3. DOMAIN t = 1 .. n + 1
    BY <1>2, LenProperties
  <1> HIDE DEF n, t
  <1>4. 1 .. n + 1 = (1 .. n) \cup {n + 1} /\ n + 1 \notin 1 .. n
    BY <1>1
  <1>5. Of(t, pl) = {i \in (1 .. n) \cup {n + 1} : t[i].pl = pl} /\ Of(st, pl) = {i \in 1 .. n : st[i].pl = pl}
    BY <1>1, <1>3, <1>4 DEF Of
  <1>6. /\ ch.pl # pl => Of(t, pl) = Of(st, pl)
        /\ ch.pl = pl => Of(t, pl) = Of(st, pl) \cup {n + 1} /\ n + 1 \notin Of(st, pl)
    BY <1>2, <1>4, <1>5
  <1> QED
    BY <1>6 DEF n, t

LEMMA ReadInitInv == Init => ReadInv
  <1> SUFFICES ASSUME Init PROVE ReadInv
    OBVIOUS
  <1>1. /\ phase = "start" /\ result = "none" /\ idx = 1 /\ channels = <<>>
        /\ \A d \in Sources : /\ pos[d] = 0 /\ itemBuffer[d] = <<>> /\ batch[d] = <<>>
                              /\ err[d] = "none" /\ buffering[d] = "none"
    BY DEF Init, DecoderInit
  <1>2. \A d \in Sources : Made(d) = 0
    <2> SUFFICES ASSUME NEW d \in Sources PROVE Made(d) = 0
      OBVIOUS
    <2>1. Len(itemBuffer[d]) = 0 /\ Len(batch[d]) = 0 /\ pos[d] = 0
      BY <1>1
    <2> QED
      BY <2>1 DEF Made
  <1>3. ASSUME NEW d \in Sources
        PROVE  SourceRead(d)
    <2>1. \A i \in 1 .. pos[d] : FALSE
      BY <1>1
    <2> QED
      BY <1>1, <1>2, <2>1 DEF SourceRead
  <1>4. InTurn
    BY <1>1 DEF InTurn
  <1>5. Counted
    <2>1. ASSUME NEW pl
          PROVE  TakenOf(pl) = {} /\ Of(channels, pl) = {}
      <3>1. \A d \in SourcesOf(pl) : d \in Sources
        BY DEF SourcesOf
      <3>2. PICK f : f = [d \in Sources |-> Made(d)]
        OBVIOUS
      <3>3. \A d \in SourcesOf(pl) : \A k \in 1 .. f[d] : FALSE
        BY <1>2, <3>1, <3>2
      <3>4. Numbered(f, pl) = {}
        BY <3>3, NumberedMember
      <3>5. Of(channels, pl) = {}
        BY <1>1 DEF Of
      <3> QED
        BY <3>2, <3>4, <3>5 DEF TakenOf
    <2> QED
      BY <2>1, FS_EmptySet DEF Counted
  <1> QED
    BY <1>3, <1>4, <1>5 DEF ReadInv

\* Steps that read nothing: what the decoders hold stays.
Quiet == /\ feed' = feed /\ pos' = pos /\ itemBuffer' = itemBuffer /\ batch' = batch
         /\ err' = err /\ buffering' = buffering
         /\ result' # "error" => result # "error"

LEMMA QuietRead ==
  ASSUME ReadInv, Quiet
  PROVE  /\ \A d \in Sources : SourceRead(d)'
         /\ \A d \in Sources : Drained(d)' <=> Drained(d)
         /\ \A d \in Sources : Made(d)' = Made(d)
  <1>1. ASSUME NEW d \in Sources
        PROVE  /\ SourceRead(d)'
               /\ Drained(d)' <=> Drained(d)
               /\ Made(d)' = Made(d)
    <2>1. Made(d)' = Made(d)
      BY DEF Quiet, Made
    <2>2. Drained(d)' <=> Drained(d)
      BY DEF Quiet, Drained
    <2>3. SourceRead(d)
      BY DEF ReadInv
    <2>4. SourceRead(d)'
      BY <2>1, <2>3 DEF Quiet, SourceRead
    <2> QED
      BY <2>1, <2>2, <2>4
  <1> QED
    BY <1>1

\* What the goroutine reads is in its buffers, or it fails.
LEMMA MadeKept ==
  ASSUME DecodersTyped, NEW d \in Sources, GoroutineDoes(d)
  PROVE  /\ err'[d] # "failed" => Made(d)' = Made(d)
         /\ Made(d) \in Nat => Made(d)' \in Nat
  <1>1. pos[d] \in Nat /\ Len(itemBuffer[d]) \in Nat /\ Len(batch[d]) \in Nat
    BY LenProperties DEF DecodersTyped
  <1>2. pos'[d] \in Nat /\ Len(itemBuffer'[d]) \in Nat /\ Len(batch'[d]) \in Nat
    <2>1. DecodersTyped'
      BY DEF GoroutineDoes
    <2>2. pos'[d] \in Nat /\ itemBuffer'[d] \in Seq(Track) /\ batch'[d] \in Seq(Track)
      BY <2>1 DEF DecodersTyped
    <2> QED
      BY <2>2, LenProperties
  <1>3. PICK p, i, b, q, j, c :
           /\ p = pos[d] /\ i = Len(itemBuffer[d]) /\ b = Len(batch[d])
           /\ q = pos'[d] /\ j = Len(itemBuffer'[d]) /\ c = Len(batch'[d])
    OBVIOUS
  <1>4. Made(d) = p - i - b /\ Made(d)' = q - j - c
    BY <1>3 DEF Made
  <1>5. /\ p \in Nat /\ i \in Nat /\ b \in Nat /\ q \in Nat /\ j \in Nat /\ c \in Nat
        /\ \/ j + c = i + b + 1 /\ q = p + 1
           \/ j + c = i + b /\ (q = p \/ (q = p + 1 /\ err'[d] = "failed"))
    BY <1>1, <1>2, <1>3 DEF GoroutineDoes
  <1>6. \/ q - j - c = p - i - b
        \/ q - j - c = p - i - b + 1 /\ err'[d] = "failed"
    BY <1>5
  <1> QED
    BY <1>4, <1>6

LEMMA SourcesStep ==
  PlaylistInv /\ ReadInv /\ [Next]_vars => (\A d \in Sources : SourceRead(d))'
  <1> SUFFICES ASSUME PlaylistInv, ReadInv, [Next]_vars, NEW x \in Sources
               PROVE  SourceRead(x)'
    OBVIOUS
  <1>1. /\ DecodersTyped /\ PhasesTyped
        /\ feed \in [Sources -> Seq(Elements)] /\ pos \in [Sources -> Nat]
        /\ itemBuffer \in [Sources -> Seq(Track)] /\ batch \in [Sources -> Seq(Track)]
        /\ err \in [Sources -> {"none", "eof", "failed"}]
        /\ buffering \in [Sources -> {"none", "select", "decode"}]
        /\ \A d \in Sources : pos[d] <= Len(feed[d])
    BY DEF PlaylistInv, DecodersTyped
  <1>2. SourceRead(x) /\ InTurn
    BY DEF ReadInv
  <1>3. pos[x] \in Nat /\ Len(itemBuffer[x]) \in Nat /\ Len(batch[x]) \in Nat
    BY <1>1, LenProperties
  <1>4. CASE Quiet
    BY <1>4, QuietRead
  <1>5. CASE StartDecoder
    <2>1. /\ phase = "start" /\ result' = result
          /\ buffering' = [buffering EXCEPT ![idx] = "select"]
          /\ feed' = feed /\ pos' = pos /\ itemBuffer' = itemBuffer /\ batch' = batch /\ err' = err
      BY <1>5 DEF StartDecoder, StartBuffering
    <2>2. x = idx => err[x] = "none"
      <3>1. \A n \in Nat : n >= n
        OBVIOUS
      <3> QED
        BY <1>1, <1>2, <2>1, <3>1 DEF InTurn, PhasesTyped
    <2>3. buffering'[x] = IF x = idx THEN "select" ELSE buffering[x]
      BY <1>1, <2>1
    <2> QED
      BY <1>2, <2>1, <2>2, <2>3 DEF SourceRead, Made
  <1>6. CASE StartFails
    <2>1. /\ phase = "start" /\ result' = "error"
          /\ err' = [err EXCEPT ![idx] = "failed"]
          /\ feed' = feed /\ pos' = pos /\ itemBuffer' = itemBuffer /\ batch' = batch
          /\ buffering' = buffering
      BY <1>6 DEF StartFails, readerVars
    <2>2. x = idx => buffering[x] = "none"
      <3>1. \A n \in Nat : n >= n
        OBVIOUS
      <3> QED
        BY <1>1, <1>2, <2>1, <3>1 DEF InTurn, PhasesTyped
    <2>3. err'[x] = IF x = idx THEN "failed" ELSE err[x]
      BY <1>1, <2>1
    <2> QED
      BY <1>2, <2>1, <2>2, <2>3 DEF SourceRead, Made
  <1>7. CASE AddTrack
    <2>1. /\ idx \in Sources /\ HasNext(idx) /\ Take(idx)
          /\ feed' = feed /\ batch' = batch /\ err' = err /\ buffering' = buffering
          /\ result' = result
      BY <1>1, <1>7 DEF AddTrack, Reading, PhasesTyped
    <2>2. /\ itemBuffer' \in [Sources -> Seq(Track)]
          /\ x # idx => pos'[x] = pos[x] /\ itemBuffer'[x] = itemBuffer[x]
          /\ \/ pos'[idx] = pos[idx] /\ Len(itemBuffer[idx]) = Len(itemBuffer'[idx]) + 1
             \/ /\ pos'[idx] = pos[idx] + 1 /\ itemBuffer'[idx] = itemBuffer[idx]
                /\ err[idx] = "none" /\ feed[idx][pos[idx] + 1].kind = "track"
      BY <1>1, <2>1, TakeResult
    <2>3. CASE x # idx
      BY <1>2, <2>1, <2>2, <2>3 DEF SourceRead, Made
    <2>4. CASE x = idx /\ pos'[x] = pos[x] /\ Len(itemBuffer[x]) = Len(itemBuffer'[x]) + 1
      <3>1. Len(itemBuffer'[x]) \in Nat
        BY <2>2, LenProperties
      <3>2. Made(x)' \in Nat
        BY <1>2, <1>3, <2>1, <2>4, <3>1 DEF SourceRead, Made
      <3> QED
        BY <1>2, <2>1, <2>4, <3>2 DEF SourceRead
    <2>5. CASE /\ x = idx /\ pos'[x] = pos[x] + 1 /\ itemBuffer'[x] = itemBuffer[x]
               /\ err[x] = "none" /\ feed[x][pos[x] + 1].kind = "track"
      <3>1. Made(x)' \in Nat
        BY <1>2, <1>3, <2>1, <2>5 DEF SourceRead, Made
      <3>2. 1 .. pos'[x] = (1 .. pos[x]) \cup {pos[x] + 1}
        BY <1>3, <2>5
      <3> QED
        BY <1>2, <2>1, <2>5, <3>1, <3>2 DEF SourceRead
    <2> QED
      BY <2>2, <2>3, <2>4, <2>5
  <1>8. CASE TracksEnd
    <2>1. /\ idx \in Sources /\ NextError(idx, "eof")
          /\ feed' = feed /\ itemBuffer' = itemBuffer /\ batch' = batch /\ err' = err
          /\ buffering' = buffering
      BY <1>1, <1>8 DEF TracksEnd, Reading, PhasesTyped
    <2>2. pos' = pos
      BY <1>1, <2>1, NextErrorResult
    <2>3. phase = "tracks"
      BY <1>8 DEF TracksEnd, Reading
    <2>4. result = "none"
      BY <1>2, <2>3 DEF InTurn
    <2> QED
      BY <1>4, <2>1, <2>2, <2>4 DEF Quiet
  <1>9. CASE ReadFails
    <2>1. /\ idx \in Sources /\ (pos' = pos \/ NextError(idx, "failed"))
          /\ feed' = feed /\ itemBuffer' = itemBuffer /\ batch' = batch /\ err' = err
          /\ buffering' = buffering /\ result' = "error"
      BY <1>1, <1>9 DEF ReadFails, Reading, PhasesTyped, readerVars
    <2>2. \/ pos' = pos
          \/ /\ err[idx] = "none" /\ pos'[idx] = pos[idx] + 1
             /\ \A d \in Sources : d # idx => pos'[d] = pos[d]
      BY <1>1, <2>1, NextErrorResult
    <2>3. CASE pos'[x] = pos[x]
      BY <1>2, <2>1, <2>3 DEF SourceRead, Made
    <2>4. CASE x = idx /\ err[x] = "none" /\ pos'[x] = pos[x] + 1
      <3>1. Made(x)' \in Nat
        BY <1>2, <1>3, <2>1, <2>4 DEF SourceRead, Made
      <3> QED
        BY <1>2, <2>1, <2>4, <3>1 DEF SourceRead
    <2> QED
      BY <2>2, <2>3, <2>4
  <1>10. ASSUME NEW d \in Sources, Goroutine(d)
         PROVE  SourceRead(x)'
    <2>1. GoroutineDoes(d)
      BY <1>1, <1>10, GoroutineResult
    <2>2. feed' = feed /\ result' = result
      BY <2>1 DEF GoroutineDoes
    <2>3. CASE x # d
      BY <1>2, <2>1, <2>2, <2>3 DEF SourceRead, Made, GoroutineDoes
    <2>4. CASE x = d
      <3>1. err[x] = "none"
        BY <1>2, <2>1, <2>4 DEF SourceRead, GoroutineDoes
      <3>2. Made(x)' \in Nat
        BY <1>1, <1>2, <2>1, <2>4, MadeKept DEF SourceRead
      <3>3. /\ buffering'[x] = "none" => batch'[x] = <<>>
            /\ buffering'[x] # "none" => err'[x] = "none"
        BY <2>1, <2>4, <3>1 DEF GoroutineDoes
      <3>4. CASE /\ Len(itemBuffer'[x]) + Len(batch'[x]) = Len(itemBuffer[x]) + Len(batch[x]) + 1
                 /\ pos'[x] = pos[x] + 1 /\ feed[x][pos[x] + 1].kind = "track"
                 /\ err'[x] = err[x]
        <4>1. 1 .. pos'[x] = (1 .. pos[x]) \cup {pos[x] + 1}
          BY <1>3, <3>4
        <4> QED
          BY <1>2, <2>2, <3>1, <3>2, <3>3, <3>4, <4>1 DEF SourceRead
      <3>5. CASE /\ Len(itemBuffer'[x]) + Len(batch'[x]) = Len(itemBuffer[x]) + Len(batch[x])
                 /\ \/ pos'[x] = pos[x] /\ err'[x] = err[x]
                    \/ pos'[x] = pos[x] /\ err'[x] = "eof" /\ pos[x] = Len(feed[x])
                    \/ pos'[x] \in {pos[x], pos[x] + 1} /\ err'[x] = "failed"
        BY <1>2, <2>2, <3>1, <3>2, <3>3, <3>5 DEF SourceRead
      <3> QED
        BY <2>1, <2>4, <3>4, <3>5 DEF GoroutineDoes
    <2> QED
      BY <2>3, <2>4
  <1>11. CASE /\ feed' = feed /\ pos' = pos /\ itemBuffer' = itemBuffer /\ batch' = batch
              /\ err' = err /\ buffering' = buffering
              /\ (result' = result \/ result' = "error" \/ phase \notin {"close", "returned"})
    BY <1>2, <1>4, <1>11 DEF Quiet, InTurn
  <1>12. CASE StartDone \/ RulesFail \/ RulesDone \/ Merge \/ Collect \/ WriteChannel
              \/ WriteFails \/ Written \/ ClientGone \/ StopBufferReturns
    BY <1>11, <1>12 DEF StartDone, RulesFail, Fail, RulesDone, Merge, Collect, WriteChannel,
                        WriteFails, Written, ClientGone, StopBufferReturns, decoderVars, readerVars
  <1>13. CASE ChannelRulesApply \/ PlaylistRuleApplies
    BY <1>11, <1>13 DEF ChannelRulesApply, PlaylistRuleApplies, decoderVars, readerVars
  <1>14. CASE StopBuffer \/ Close
    BY <1>11, <1>14 DEF StopBuffer, Close, readerVars
  <1>15. CASE UNCHANGED vars
    BY <1>11, <1>15 DEF vars, decoderVars, readerVars
  <1> QED
    BY <1>5, <1>6, <1>7, <1>8, <1>9, <1>10, <1>12, <1>13, <1>14, <1>15
       DEF Next, WriteTo, Terminating

\* What is drained stays so if neither its buffers nor its position change.
LEMMA StillDrained ==
  ASSUME NEW d \in Sources, Drained(d), feed' = feed, pos'[d] = pos[d],
         itemBuffer'[d] = itemBuffer[d], batch'[d] = batch[d], err'[d] = err[d],
         buffering'[d] = buffering[d]
  PROVE  Drained(d)'
  BY DEF Drained

LEMMA InTurnStep == PlaylistInv /\ ReadInv /\ [Next]_vars => InTurn'
  <1> SUFFICES ASSUME PlaylistInv, ReadInv, [Next]_vars PROVE InTurn'
    OBVIOUS
  <1>1. /\ DecodersTyped /\ PhasesTyped /\ InTurn
        /\ err \in [Sources -> {"none", "eof", "failed"}]
        /\ buffering \in [Sources -> {"none", "select", "decode"}]
        /\ NumSources \in Nat /\ Sources = 1 .. NumSources /\ idx \in Nat
    BY SourcesAssumption DEF PlaylistInv, DecodersTyped, PhasesTyped, ReadInv
  <1>2. CASE Quiet /\ phase' = phase /\ idx' = idx /\ step' \in {step, "wait"} /\ result' = result
    <2>1. \A d \in Sources : Drained(d)' <=> Drained(d)
      BY <1>2, QuietRead
    <2>2. buffering' = buffering /\ err' = err
      BY <1>2 DEF Quiet
    <2> QED
      BY <1>1, <1>2, <2>1, <2>2 DEF InTurn
  <1>3. CASE /\ Quiet /\ phase \notin {"start", "tracks"} /\ phase' \notin {"start", "tracks"}
             /\ phase' \notin {"close", "returned"} => result' = "none"
             /\ phase' = "close" => result' \in {"none", "error"}
    <2>1. \A d \in Sources : Drained(d)' <=> Drained(d)
      BY <1>3, QuietRead
    <2>2. result' # "error" => result # "error"
      BY <1>3 DEF Quiet
    <2> QED
      BY <1>1, <1>3, <2>1, <2>2 DEF InTurn
  <1>4. CASE StopBuffer \/ Merge \/ WriteChannel \/ ClientGone \/ UNCHANGED vars
    <2>1. /\ phase' = phase /\ idx' = idx /\ step' \in {step, "wait"} /\ result' = result
          /\ feed' = feed /\ pos' = pos /\ itemBuffer' = itemBuffer /\ batch' = batch
          /\ err' = err /\ buffering' = buffering
      BY <1>4 DEF StopBuffer, Merge, WriteChannel, ClientGone, vars, decoding, decoderVars,
                  readerVars
    <2> QED
      BY <1>2, <2>1 DEF Quiet
  <1>5. CASE StopBufferReturns
    <2>1. /\ phase' = "tracks" /\ phase = "tracks" /\ idx' = idx /\ result' = result
          /\ buffering[idx] = "none"
          /\ feed' = feed /\ pos' = pos /\ itemBuffer' = itemBuffer /\ batch' = batch
          /\ err' = err /\ buffering' = buffering
      BY <1>5 DEF StopBufferReturns, Waited, decoderVars, readerVars
    <2>2. \A d \in Sources : Drained(d)' <=> Drained(d)
      BY <2>1, QuietRead DEF Quiet
    <2> QED
      BY <1>1, <2>1, <2>2 DEF InTurn
  <1>6. CASE StartDone
    <2>1. phase = "start" /\ phase' = "tracks" /\ step' = "stop" /\ idx' = 1 /\ result' = result
      BY <1>6 DEF StartDone
    <2>2. \A d \in Sources : ~(d < 1)
      BY <1>1
    <2> QED
      BY <1>1, <2>1, <2>2 DEF InTurn
  <1>7. CASE Close \/ RulesFail \/ RulesDone \/ Collect \/ WriteFails \/ Written
    <2>1. /\ phase \notin {"start", "tracks"} /\ phase' \notin {"start", "tracks"}
          /\ phase' \notin {"close", "returned"} => result' = "none"
          /\ phase' = "close" => result' \in {"none", "error"}
          /\ result' # "error" => result # "error"
      BY <1>1, <1>7 DEF Close, RulesFail, Fail, RulesDone, Collect, WriteFails, Written, InTurn,
                        output
    <2>2. /\ feed' = feed /\ pos' = pos /\ itemBuffer' = itemBuffer /\ batch' = batch
          /\ err' = err /\ buffering' = buffering
      BY <1>7 DEF Close, RulesFail, RulesDone, Collect, WriteFails, Written, decoderVars, readerVars
    <2> QED
      BY <1>3, <2>1, <2>2 DEF Quiet
  <1>8. CASE ChannelRulesApply \/ PlaylistRuleApplies
    <2>1. /\ phase \in {"channelRules", "playlistRules"}
          /\ \/ Fail
             \/ phase' = "playlistRules" /\ result' = result
      BY <1>8 DEF ChannelRulesApply, PlaylistRuleApplies
    <2>2. /\ feed' = feed /\ pos' = pos /\ itemBuffer' = itemBuffer /\ batch' = batch
          /\ err' = err /\ buffering' = buffering
      BY <1>8 DEF ChannelRulesApply, PlaylistRuleApplies, decoderVars, readerVars
    <2>3. result = "none"
      BY <1>1, <2>1 DEF InTurn
    <2> QED
      BY <1>3, <2>1, <2>2, <2>3 DEF Quiet, Fail
  <1>9. CASE StartDecoder
    <2>1. /\ phase = "start" /\ phase' = phase /\ idx' = idx + 1 /\ result' = result
          /\ buffering' = [buffering EXCEPT ![idx] = "select"] /\ err' = err
      BY <1>9 DEF StartDecoder, StartBuffering
    <2>2. ASSUME NEW d \in Sources, d >= idx + 1
          PROVE  buffering'[d] = "none" /\ err'[d] = "none"
      <3>1. d >= idx /\ d # idx
        BY <1>1, <2>2
      <3>2. buffering[d] = "none" /\ err[d] = "none"
        BY <1>1, <2>1, <3>1 DEF InTurn
      <3> QED
        BY <1>1, <2>1, <3>1, <3>2
    <2> QED
      BY <1>1, <2>1, <2>2 DEF InTurn
  <1>10. CASE StartFails \/ ReadFails
    BY <1>10 DEF StartFails, ReadFails, InTurn
  <1>11. CASE AddTrack
    <2>1. /\ idx \in Sources /\ HasNext(idx) /\ Take(idx) /\ phase = "tracks"
          /\ feed' = feed /\ batch' = batch /\ err' = err /\ buffering' = buffering
          /\ result' = result /\ phase' = phase /\ idx' = idx /\ step' = step
      BY <1>1, <1>11 DEF AddTrack, Reading, PhasesTyped, decoding
    <2>2. \A d \in Sources : d # idx => pos'[d] = pos[d] /\ itemBuffer'[d] = itemBuffer[d]
      BY <1>1, <2>1, TakeResult
    <2>3. ASSUME NEW d \in Sources, d < idx
          PROVE  Drained(d)'
      <3>1. d # idx /\ Drained(d)
        BY <1>1, <2>1, <2>3 DEF InTurn
      <3> QED
        BY <2>1, <2>2, <3>1, StillDrained
    <2> QED
      BY <1>1, <2>1, <2>3 DEF InTurn
  <1>12. CASE TracksEnd
    <2>1. /\ idx \in Sources /\ NextError(idx, "eof") /\ phase = "tracks" /\ step = "read"
          /\ feed' = feed /\ itemBuffer' = itemBuffer /\ batch' = batch /\ err' = err
          /\ buffering' = buffering /\ step' = "stop" /\ result' \in {"none", "error"}
          /\ \/ idx < NumSources /\ idx' = idx + 1 /\ phase' = phase /\ result' = result
             \/ ~(idx < NumSources) /\ phase' = "close"
      BY <1>1, <1>12 DEF TracksEnd, Reading, PhasesTyped, InTurn
    <2>2. /\ pos' = pos /\ itemBuffer[idx] = <<>>
          /\ err[idx] = "eof" \/ (err[idx] = "none" /\ pos[idx] = Len(feed[idx]))
      BY <1>1, <2>1, NextErrorResult
    <2>3. buffering[idx] = "none" /\ result = "none"
      BY <1>1, <2>1 DEF InTurn
    <2>4. SourceRead(idx)
      BY <2>1 DEF ReadInv
    <2>5. Drained(idx)
      BY <2>2, <2>3, <2>4 DEF SourceRead, Drained
    <2>6. ASSUME NEW d \in Sources, d < idx + 1
          PROVE  Drained(d)'
      <3>1. d < idx \/ d = idx
        BY <1>1, <2>6
      <3>2. Drained(d)
        BY <1>1, <2>1, <2>5, <3>1 DEF InTurn
      <3> QED
        BY <2>1, <2>2, <3>2, StillDrained
    <2>7. CASE idx < NumSources /\ idx' = idx + 1 /\ phase' = phase /\ result' = result
      BY <2>1, <2>3, <2>6, <2>7 DEF InTurn
    <2>8. CASE ~(idx < NumSources) /\ phase' = "close"
      <3>1. \A d \in Sources : d < idx + 1
        BY <1>1, <2>8
      <3> QED
        BY <2>1, <2>6, <2>8, <3>1 DEF InTurn
    <2> QED
      BY <2>1, <2>7, <2>8
  <1>13. ASSUME NEW d \in Sources, Goroutine(d)
         PROVE  InTurn'
    <2>1. GoroutineDoes(d)
      BY <1>1, <1>13, GoroutineResult
    <2>2. /\ buffering[d] # "none" /\ feed' = feed
          /\ phase' = phase /\ step' = step /\ idx' = idx /\ result' = result
          /\ \A x \in Sources : x # d =>
                /\ pos'[x] = pos[x] /\ itemBuffer'[x] = itemBuffer[x] /\ batch'[x] = batch[x]
                /\ err'[x] = err[x] /\ buffering'[x] = buffering[x]
      BY <2>1 DEF GoroutineDoes, decoding
    <2>3. ASSUME NEW x \in Sources, Drained(x)
          PROVE  Drained(x)'
      <3>1. x # d
        BY <2>2, <2>3 DEF Drained
      <3> QED
        BY <2>2, <2>3, <3>1, StillDrained
    <2>4. ASSUME NEW x \in Sources, buffering[x] = "none"
          PROVE  buffering'[x] = "none" /\ err'[x] = err[x]
      BY <2>2, <2>4
    <2>5. phase = "tracks" => idx \in Sources
      BY <1>1 DEF PhasesTyped
    <2> QED
      BY <1>1, <2>2, <2>3, <2>4, <2>5 DEF InTurn
  <1> QED
    BY <1>4, <1>5, <1>6, <1>7, <1>8, <1>9, <1>10, <1>11, <1>12, <1>13 DEF Next, WriteTo, Terminating

\* The channels of a playlist are as many as before if the store keeps the playlists and
\* nothing is taken.
LEMMA StillCounted ==
  ASSUME Counted, \A d \in Sources : Made(d)' = Made(d),
         \A pl : Cardinality(Of(channels, pl))' = Cardinality(Of(channels, pl)),
         result' # "error" /\ (\A d \in Sources : err'[d] # "failed") =>
            result # "error" /\ \A d \in Sources : err[d] # "failed"
  PROVE  Counted'
  <1>1. ASSUME NEW pl
        PROVE  TakenOf(pl)' = TakenOf(pl)
    <2>1. [d \in Sources |-> Made(d)]' = [d \in Sources |-> Made(d)]
      OBVIOUS
    <2> QED
      BY <2>1 DEF TakenOf
  <1> QED
    BY <1>1 DEF Counted

\* A merge step changes no more than attributes of a channel.
LEMMA MergeKeepsPlaylists ==
  ASSUME MergeInv, MergeStep
  PROVE  SamePlaylists(channels, channels')
  <1>1. channels \in Seq(Channel)
    BY DEF MergeInv, MergeTypeOK
  <1>2. CASE SkipRemoved \/ ReplaceBest \/ AddFallback
    BY <1>1, <1>2 DEF SkipRemoved, ReplaceBest, AddFallback, SamePlaylists
  <1>3. CASE AddFirst
    <2>1. channels' \in Seq(Channel) /\ Len(channels') = Len(channels)
      BY <1>3, AddFirstResult
    <2>2. PICK attrs : channels' = [channels EXCEPT ![at].attrs = attrs]
      BY <1>3 DEF AddFirst
    <2>3. ASSUME NEW i \in 1 .. Len(channels)
          PROVE  channels'[i].pl = channels[i].pl
      <3>1. i \in DOMAIN channels /\ channels[i] \in Channel
        BY <1>1, LenProperties, ElementOfSeq
      <3>2. channels'[i] = IF i = at THEN [channels[i] EXCEPT !.attrs = attrs] ELSE channels[i]
        BY <2>2, <3>1
      <3> QED
        BY <3>1, <3>2 DEF Channel
    <2>4. PICK t : t = channels'
      OBVIOUS
    <2>5. AlongWith(channels, t)
      BY <2>1, <2>3, <2>4 DEF AlongWith
    <2> QED
      BY <1>1, <2>4, <2>5, AlongIsSame
  <1> QED
    BY <1>2, <1>3 DEF MergeStep

LEMMA CountedStep == PlaylistInv /\ ReadInv /\ [Next]_vars => Counted'
  <1> SUFFICES ASSUME PlaylistInv, ReadInv, [Next]_vars PROVE Counted'
    OBVIOUS
  <1>1. /\ DecodersTyped /\ PhasesTyped /\ InTurn /\ Counted /\ MergeInv
        /\ channels \in Seq(Channel)
        /\ err \in [Sources -> {"none", "eof", "failed"}]
        /\ NumSources \in Nat /\ Sources = 1 .. NumSources /\ idx \in Nat
    BY SourcesAssumption DEF PlaylistInv, DecodersTyped, PhasesTyped, ReadInv, StoreKept, MergeInv,
       MergeTypeOK
  <1>2. CASE /\ feed' = feed /\ pos' = pos /\ itemBuffer' = itemBuffer /\ batch' = batch
             /\ err' = err
             /\ result' # "error" => result # "error"
             /\ channels' = channels \/ SamePlaylists(channels, channels')
    <2>1. \A d \in Sources : Made(d)' = Made(d)
      BY <1>2 DEF Made
    <2>2. ASSUME NEW pl
          PROVE  Cardinality(Of(channels, pl))' = Cardinality(Of(channels, pl))
      <3>1. CASE channels' = channels
        BY <3>1 DEF Of
      <3>2. CASE SamePlaylists(channels, channels')
        <4>1. Cardinality(Of(channels', pl)) = Cardinality(Of(channels, pl))
          BY <3>2 DEF SamePlaylists
        <4>2. Of(channels, pl)' = Of(channels', pl)
          BY DEF Of
        <4>3. Cardinality(Of(channels, pl))' = Cardinality(Of(channels', pl))
          BY <4>2
        <4> QED
          BY <4>1, <4>3
      <3> QED
        BY <1>2, <3>1, <3>2
    <2> QED
      BY <1>1, <1>2, <2>1, <2>2, StillCounted
  <1>3. result' = "error" => Counted'
    BY DEF Counted
  <1>4. CASE StartFails \/ ReadFails \/ RulesFail
    BY <1>3, <1>4 DEF StartFails, ReadFails, RulesFail, Fail
  <1>5. CASE StartDecoder \/ StartDone \/ StopBuffer \/ StopBufferReturns \/ Close \/ RulesDone
             \/ WriteChannel \/ ClientGone \/ UNCHANGED vars
    BY <1>2, <1>5 DEF StartDecoder, StartDone, StopBuffer, StopBufferReturns, Close, RulesDone,
                      WriteChannel, ClientGone, vars, decoderVars, readerVars, mergeVars,
                      output
  <1>6. CASE WriteFails \/ Written \/ Collect
    <2>1. result = "none"
      BY <1>1, <1>6 DEF WriteFails, Written, Collect, InTurn
    <2>2. /\ feed' = feed /\ pos' = pos /\ itemBuffer' = itemBuffer /\ batch' = batch
          /\ err' = err /\ channels' = channels
      BY <1>6 DEF WriteFails, Written, Collect, LinkChannels, decoderVars, readerVars, mergeVars
    <2> QED
      BY <1>2, <2>1, <2>2
  <1>7. CASE Merge
    <2>1. SamePlaylists(channels, channels')
      BY <1>1, <1>7, MergeKeepsPlaylists DEF Merge
    <2> QED
      BY <1>2, <1>7, <2>1 DEF Merge, decoderVars, readerVars
  <1>8. CASE ChannelRulesApply
    <2>1. CASE Fail
      BY <1>3, <2>1 DEF Fail
    <2>2. CASE SamePlaylists(channels, channels') /\ result' = result
      BY <1>2, <1>8, <2>2 DEF ChannelRulesApply, decoderVars, readerVars
    <2> QED
      BY <1>8, <2>1, <2>2, ChannelRulesResult
  <1>9. CASE PlaylistRuleApplies
    <2>1. CASE Fail
      BY <1>3, <2>1 DEF Fail
    <2>2. CASE SamePlaylists(channels, channels') /\ result' = result
      BY <1>2, <1>9, <2>2 DEF PlaylistRuleApplies, decoderVars, readerVars
    <2> QED
      BY <1>9, <2>1, <2>2, PlaylistRuleResult
  <1>10. CASE TracksEnd
    <2>1. /\ idx \in Sources /\ NextError(idx, "eof") /\ phase = "tracks"
          /\ feed' = feed /\ itemBuffer' = itemBuffer /\ batch' = batch /\ err' = err
          /\ channels' = channels
      BY <1>1, <1>10 DEF TracksEnd, Reading, PhasesTyped, mergeVars
    <2>2. pos' = pos /\ result = "none"
      BY <1>1, <2>1, NextErrorResult DEF InTurn
    <2> QED
      BY <1>2, <2>1, <2>2
  <1>11. ASSUME NEW d \in Sources, Goroutine(d)
         PROVE  Counted'
    <2>1. GoroutineDoes(d)
      BY <1>1, <1>11, GoroutineResult
    <2>2. channels' = channels /\ result' = result
      BY <2>1 DEF GoroutineDoes, mergeVars
    <2>3. err[d] = "none"
      <3>1. SourceRead(d) /\ buffering[d] # "none"
        BY <2>1 DEF ReadInv, GoroutineDoes
      <3> QED
        BY <3>1 DEF SourceRead
    <2>4. CASE err'[d] = "failed"
      BY <2>4 DEF Counted
    <2>5. CASE err'[d] # "failed"
      <3>1. ASSUME NEW x \in Sources
            PROVE  Made(x)' = Made(x)
        <4>1. CASE x = d
          BY <1>1, <2>1, <2>5, <4>1, MadeKept
        <4>2. CASE x # d
          BY <2>1, <4>2 DEF GoroutineDoes, Made
        <4> QED
          BY <4>1, <4>2
      <3>2. (\A x \in Sources : err'[x] # "failed") => \A x \in Sources : err[x] # "failed"
        BY <2>1, <2>3 DEF GoroutineDoes
      <3>3. ASSUME NEW pl
            PROVE  Cardinality(Of(channels, pl))' = Cardinality(Of(channels, pl))
        BY <2>2 DEF Of
      <3> QED
        BY <1>1, <2>2, <3>1, <3>2, <3>3, StillCounted
    <2> QED
      BY <2>4, <2>5
  <1>12. CASE AddTrack
    <2>1. /\ idx \in Sources /\ HasNext(idx) /\ Take(idx) /\ phase = "tracks"
          /\ channels' = Append(channels, ensureTvgID(NewChannel(NextItem(idx), PlaylistOf[idx])))
          /\ feed' = feed /\ batch' = batch /\ err' = err /\ result' = result
      BY <1>1, <1>12 DEF AddTrack, Reading, PhasesTyped
    <2>2. /\ NextItem(idx) \in Track
          /\ pos' \in [Sources -> Nat] /\ itemBuffer' \in [Sources -> Seq(Track)]
          /\ \A x \in Sources : x # idx => pos'[x] = pos[x] /\ itemBuffer'[x] = itemBuffer[x]
          /\ \/ pos'[idx] = pos[idx] /\ Len(itemBuffer[idx]) = Len(itemBuffer'[idx]) + 1
             \/ pos'[idx] = pos[idx] + 1 /\ itemBuffer'[idx] = itemBuffer[idx]
      BY <1>1, <2>1, TakeResult
    <2>3. PICK ch : ch = ensureTvgID(NewChannel(NextItem(idx), PlaylistOf[idx]))
      OBVIOUS
    <2>4. PICK e : e = idx
      OBVIOUS
    <2>5. ch \in Channel /\ ch.pl = PlaylistOf[e]
      BY <2>1, <2>2, <2>3, <2>4, NewChannelType, PlaylistAssumption
    <2>6. Made(e)' = Made(e) + 1
      <3>1. /\ pos[e] \in Nat /\ Len(itemBuffer[e]) \in Nat /\ Len(batch[e]) \in Nat
            /\ pos'[e] \in Nat /\ Len(itemBuffer'[e]) \in Nat
        BY <1>1, <2>1, <2>2, <2>4, LenProperties DEF DecodersTyped
      <3>2. \A p, q, i, j, b \in Nat : (q = p /\ i = j + 1) \/ (q = p + 1 /\ j = i) =>
               q - j - b = p - i - b + 1
        OBVIOUS
      <3>3. \/ pos'[e] = pos[e] /\ Len(itemBuffer[e]) = Len(itemBuffer'[e]) + 1
            \/ pos'[e] = pos[e] + 1 /\ Len(itemBuffer'[e]) = Len(itemBuffer[e])
        BY <2>2, <2>4
      <3>4. pos'[e] - Len(itemBuffer'[e]) - Len(batch[e])
              = pos[e] - Len(itemBuffer[e]) - Len(batch[e]) + 1
        BY <3>1, <3>2, <3>3
      <3>5. Made(e)' = pos'[e] - Len(itemBuffer'[e]) - Len(batch[e])
        BY <2>1 DEF Made
      <3> QED
        BY <3>4, <3>5 DEF Made
    <2>7. \A x \in Sources : x # e => Made(x)' = Made(x)
      BY <2>1, <2>2, <2>4 DEF Made
    <2>8. PICK f, g : f = [d \in Sources |-> Made(d)] /\ g = [d \in Sources |-> Made(d)']
      OBVIOUS
    <2>9. /\ f \in [Sources -> Nat] /\ e \in Sources
          /\ g[e] = f[e] + 1 /\ \A x \in Sources : x # e => g[x] = f[x]
      <3>1. \A d \in Sources : Made(d) \in Nat
        BY DEF ReadInv, SourceRead
      <3> QED
        BY <2>1, <2>4, <2>6, <2>7, <2>8, <3>1
    <2>10. g \in [Sources -> Nat]
      <3>1. \A x \in Sources : g[x] \in Nat
        BY <2>9
      <3> QED
        BY <2>8, <3>1
    <2> SUFFICES ASSUME result' # "error", \A d \in Sources : err'[d] # "failed",
                        NEW pl \in Playlists
                 PROVE  /\ IsFiniteSet(TakenOf(pl))'
                        /\ Cardinality(Of(channels, pl))' = Cardinality(TakenOf(pl))'
      BY DEF Counted
    <2>11. /\ IsFiniteSet(Numbered(f, pl))
           /\ Cardinality(Of(channels, pl)) = Cardinality(Numbered(f, pl))
      BY <1>1, <2>1, <2>8 DEF Counted, TakenOf
    <2>12. TakenOf(pl)' = Numbered(g, pl)
      BY <2>8 DEF TakenOf
    <2>13. Of(channels, pl)' = Of(Append(channels, ch), pl)
      BY <2>1, <2>3 DEF Of
    <2>14. IsFiniteSet(Of(channels, pl))
      BY <1>1, OfFinite
    <2>15. /\ PlaylistOf[e] # pl => Numbered(g, pl) = Numbered(f, pl)
           /\ PlaylistOf[e] = pl => /\ Numbered(g, pl) = Numbered(f, pl) \cup {<<e, g[e]>>}
                                    /\ <<e, g[e]>> \notin Numbered(f, pl)
      BY <2>9, <2>10, NumberedGrows, ZenonT(60)
    <2>16. /\ ch.pl # pl => Of(Append(channels, ch), pl) = Of(channels, pl)
           /\ ch.pl = pl => /\ Of(Append(channels, ch), pl) = Of(channels, pl) \cup {Len(channels) + 1}
                            /\ Len(channels) + 1 \notin Of(channels, pl)
      <3>1. channels \in Seq(Channel) /\ ch \in Channel
        BY <1>1, <2>5
      <3> QED
        BY <3>1, OfAppended, ZenonT(60)
    <2>17. ch.pl = PlaylistOf[e]
      BY <2>5
    <2>18. /\ IsFiniteSet(Numbered(g, pl))
           /\ Cardinality(Of(Append(channels, ch), pl)) = Cardinality(Numbered(g, pl))
      <3>1. CASE PlaylistOf[e] # pl
        <4>1. Numbered(g, pl) = Numbered(f, pl)
          BY <2>15, <3>1
        <4>2. Of(Append(channels, ch), pl) = Of(channels, pl)
          BY <2>16, <2>17, <3>1
        <4> QED
          BY <2>11, <4>1, <4>2
      <3>2. CASE PlaylistOf[e] = pl
        <4>1. /\ Numbered(g, pl) = Numbered(f, pl) \cup {<<e, g[e]>>}
              /\ <<e, g[e]>> \notin Numbered(f, pl)
          BY <2>15, <3>2
        <4>2. /\ Of(Append(channels, ch), pl) = Of(channels, pl) \cup {Len(channels) + 1}
              /\ Len(channels) + 1 \notin Of(channels, pl)
          BY <2>16, <2>17, <3>2
        <4>3. /\ IsFiniteSet(Numbered(g, pl))
              /\ Cardinality(Numbered(g, pl)) = Cardinality(Numbered(f, pl)) + 1
          BY <2>11, <4>1, FS_AddElement
        <4>4. Cardinality(Of(Append(channels, ch), pl)) = Cardinality(Of(channels, pl)) + 1
          BY <2>14, <4>2, FS_AddElement
        <4> QED
          BY <2>11, <4>3, <4>4
      <3> QED
        BY <3>1, <3>2
    <2> QED
      BY <2>12, <2>13, <2>18
  <1> QED
    BY <1>4, <1>5, <1>6, <1>7, <1>8, <1>9, <1>10, <1>11, <1>12 DEF Next, WriteTo, Terminating

\* Each track that a decoder reads is in its buffers or in the store, and the sources
\* behind the consumer are read to their ends, unless the request fails.
THEOREM ReadInvariance == Spec => []ReadInv
  <1>1. PlaylistInv /\ ReadInv /\ [Next]_vars => ReadInv'
    BY SourcesStep, InTurnStep, CountedStep DEF ReadInv
  <1> QED
    BY <1>1, ReadInitInv, PlaylistInvariance, PTL DEF Spec

\* fetchPlaylists: rules see all tracks of all sources or nothing, however the goroutines
\* that read ahead are scheduled; and no rule and no merging loses a channel.
THEOREM AllSourcesCorrect == Spec => []AllSourcesRead
  <1>1. PlaylistInv /\ ReadInv => AllSourcesRead
    <2> SUFFICES ASSUME PlaylistInv, ReadInv,
                        phase \in {"channelRules", "playlistRules", "merge", "write"}
                        \/ result \in {"ok", "cut"}
                 PROVE  /\ \A d \in Sources : TracksOf(d) = DOMAIN feed[d]
                        /\ \A pl \in Playlists :
                              Cardinality({i \in DOMAIN channels : channels[i].pl = pl}) =
                              Cardinality(UNION {{d} \X TracksOf(d) : d \in SourcesOf(pl)})
      BY DEF AllSourcesRead
    <2>1. result # "error" /\ phase \notin {"start", "tracks"}
      BY DEF ReadInv, InTurn
    <2>2. \A d \in Sources : Drained(d)
      BY <2>1 DEF ReadInv, InTurn
    <2>3. ASSUME NEW d \in Sources
          PROVE  TracksOf(d) = 1 .. Made(d) /\ TracksOf(d) = DOMAIN feed[d]
      <3>1. feed[d] \in Seq(Elements) /\ pos[d] \in Nat
        BY DEF PlaylistInv, DecodersTyped
      <3>2. DOMAIN feed[d] = 1 .. Len(feed[d]) /\ Len(feed[d]) \in Nat
        BY <3>1, LenProperties
      <3>3. Len(itemBuffer[d]) = 0 /\ Len(batch[d]) = 0 /\ pos[d] = Len(feed[d])
        BY <2>2 DEF Drained
      <3>4. Made(d) = Len(feed[d])
        BY <3>2, <3>3 DEF Made
      <3>5. \A i \in 1 .. Len(feed[d]) : feed[d][i].kind = "track"
        BY <2>2 DEF Drained
      <3> QED
        BY <3>2, <3>4, <3>5 DEF TracksOf
    <2>4. ASSUME NEW pl \in Playlists
          PROVE  Cardinality({i \in DOMAIN channels : channels[i].pl = pl}) =
                 Cardinality(UNION {{d} \X TracksOf(d) : d \in SourcesOf(pl)})
      <3>1. Cardinality(Of(channels, pl)) = Cardinality(TakenOf(pl))
        BY <2>1, <2>2 DEF ReadInv, Counted, Drained
      <3>2. PICK f : f = [d \in Sources |-> Made(d)]
        OBVIOUS
      <3>3. \A d \in SourcesOf(pl) : f[d] = Made(d) /\ 1 .. f[d] = TracksOf(d)
        BY <2>3, <3>2 DEF SourcesOf
      <3>4. Numbered(f, pl) = UNION {{d} \X TracksOf(d) : d \in SourcesOf(pl)}
        BY <3>3 DEF Numbered
      <3> QED
        BY <3>1, <3>2, <3>4 DEF Of, TakenOf
    <2> QED
      BY <2>3, <2>4
  <1> QED
    BY <1>1, PlaylistInvariance, ReadInvariance, PTL
-----------------------------------------------------------------------------
(* The order in which channels are written, and keys of tags, are sequences of *)
(* the elements of finite sets.                                                 *)

LEMMA ResultsFinite ==
  ASSUME channels \in Seq(Channel)
  PROVE  /\ Results \in SUBSET Nat /\ Results \in SUBSET (1 .. Len(channels))
         /\ IsFiniteSet(Results) /\ Cardinality(Results) \in Nat
  <1>1. Len(channels) \in Nat
    BY LenProperties
  <1>2. Results \in SUBSET (1 .. Len(channels))
    BY DEF Results
  <1>3. IsFiniteSet(1 .. Len(channels))
    BY <1>1, FS_Interval
  <1>4. IsFiniteSet(Results)
    BY <1>2, <1>3, FS_Subset
  <1>5. Results \in SUBSET Nat
    BY <1>1, <1>2
  <1> QED
    BY <1>2, <1>4, <1>5, FS_CardinalityType

\* Each number up to the size of a finite set of numbers is the rank of one of them.
LEMMA Ranked ==
  ASSUME NEW S \in SUBSET Nat, IsFiniteSet(S), NEW k \in 1 .. Cardinality(S)
  PROVE  \E i \in S : Cardinality({j \in S : j <= i}) = k
  <1> DEFINE low(i) == {j \in S : j <= i}
             n == Cardinality(S)
             rank == [i \in S |-> Cardinality(low(i))]
  <1>1. n \in Nat
    BY FS_CardinalityType
  <1>2. ASSUME NEW i \in S
        PROVE  /\ IsFiniteSet(low(i)) /\ Cardinality(low(i)) \in 1 .. n
               /\ i \in low(i)
    <2>1. low(i) \in SUBSET S
      OBVIOUS
    <2>2. IsFiniteSet(low(i)) /\ Cardinality(low(i)) <= n
      BY <2>1, FS_Subset
    <2>3. Cardinality(low(i)) \in Nat
      BY <2>2, FS_CardinalityType
    <2>4. i \in low(i)
      OBVIOUS
    <2>5. Cardinality(low(i)) # 0
      BY <2>2, <2>4, FS_EmptySet
    <2> QED
      BY <1>1, <2>2, <2>3, <2>4, <2>5
  <1>3. ASSUME NEW i \in S, NEW j \in S, i < j
        PROVE  Cardinality(low(i)) # Cardinality(low(j))
    <2>1. low(i) \in SUBSET low(j)
      <3>1. i \in Nat /\ j \in Nat /\ \A x \in S : x \in Nat
        OBVIOUS
      <3>2. \A x, y, z \in Nat : x <= y /\ y < z => x <= z
        OBVIOUS
      <3>3. \A x \in S : x <= i => x <= j
        BY <1>3, <3>1, <3>2
      <3> QED
        BY <3>3
    <2>2. j \in low(j) /\ j \notin low(i)
      BY <1>3
    <2>3. IsFiniteSet(low(j))
      BY <1>2
    <2> HIDE DEF low
    <2> QED
      BY <2>1, <2>2, <2>3, FS_Subset
  <1> HIDE DEF low, n
  <1>4. rank \in [S -> 1 .. n]
    BY <1>2
  <1>5. \A i, j \in S : i # j => rank[i] # rank[j]
    <2>1. \A i, j \in S : i # j => i < j \/ j < i
      OBVIOUS
    <2> QED
      BY <1>3, <2>1
  <1>6. rank \in Injection(S, 1 .. n)
    BY <1>4, <1>5 DEF Injection, IsInjective
  <1>7. IsFiniteSet(1 .. n) /\ Cardinality(1 .. n) = n
    BY <1>1, FS_Interval
  <1>8. Cardinality(S) = Cardinality(1 .. n)
    BY <1>7 DEF n
  <1>9. rank \in Surjection(S, 1 .. n)
    BY <1>6, <1>7, <1>8, FS_Injection
  <1>10. k \in 1 .. n
    BY DEF n
  <1>11. \E i \in S : rank[i] = k
    BY <1>9, <1>10 DEF Surjection
  <1> QED
    BY <1>11 DEF low

LEMMA ResultSeqType ==
  ASSUME channels \in Seq(Channel)
  PROVE  /\ ResultSeq \in Seq(Results) /\ Len(ResultSeq) \in Nat
         /\ DOMAIN ResultSeq = 1 .. Len(ResultSeq)
         /\ \A k \in 1 .. Len(ResultSeq) : ResultSeq[k] \in Results
  <1> DEFINE n == Cardinality(Results)
             at_(k) == CHOOSE i \in Results : Cardinality({j \in Results : j <= i}) = k
  <1>1. n \in Nat /\ Results \in SUBSET Nat /\ IsFiniteSet(Results)
    BY ResultsFinite
  <1>2. ASSUME NEW k \in 1 .. n
        PROVE  at_(k) \in Results
    <2>1. \E i \in Results : Cardinality({j \in Results : j <= i}) = k
      BY <1>1, Ranked
    <2> QED
      BY <2>1
  <1>3. ResultSeq = [k \in 1 .. n |-> at_(k)]
    BY DEF ResultSeq
  <1> HIDE DEF n, at_
  <1>4. ResultSeq \in [1 .. n -> Results]
    BY <1>2, <1>3
  <1>5. ResultSeq \in Seq(Results)
    BY <1>1, <1>4 DEF Seq
  <1> QED
    BY <1>5, LenProperties, ElementOfSeq

\* The keys of a channel's tags.
LEMMA KeySeqType ==
  ASSUME NEW tags \in Fields(TagKeys)
  PROVE  /\ KeySeq(tags) \in Seq(TagKeys) /\ Len(KeySeq(tags)) \in Nat
         /\ DOMAIN KeySeq(tags) = 1 .. Len(KeySeq(tags))
         /\ \A k \in 1 .. Len(KeySeq(tags)) :
               KeySeq(tags)[k] \in TagKeys /\ tags[KeySeq(tags)[k]] \in Values
         /\ \A key \in TagKeys : tags[key] # Absent =>
               \E k \in 1 .. Len(KeySeq(tags)) : KeySeq(tags)[k] = key
  <1> DEFINE S == {k \in TagKeys : tags[k] # Absent}
             n == Cardinality(S)
             keys == KeySeq(tags)
  <1>1. S \in SUBSET TagKeys /\ IsFiniteSet(TagKeys)
    BY TagsAssumption
  <1>2. IsFiniteSet(S)
    <2> HIDE DEF S
    <2> QED
      BY <1>1, FS_Subset
  <1>3. \A key \in S : tags[key] \in Values
    BY DEF Fields, Maybe
  <1>4. \A key \in TagKeys : tags[key] # Absent => key \in S
    OBVIOUS
  <1>5. SetToSeqs(S) = {f \in [1 .. n -> S] : \A i, j \in 1 .. n : i # j => f[i] # f[j]}
    BY DEF SetToSeqs
  <1>6. keys = CHOOSE s \in SetToSeqs(S) : TRUE
    BY DEF KeySeq
  <1> HIDE DEF S, keys
  <1>7. n \in Nat /\ ExistsBijection(1 .. n, S)
    BY <1>2, FS_CardinalityType
  <1>8. IsFiniteSet(1 .. n) /\ Cardinality(1 .. n) = n
    BY <1>7, FS_Interval
  <1> HIDE DEF n
  <1>9. PICK b : b \in Bijection(1 .. n, S)
    BY <1>7 DEF ExistsBijection
  <1>10. b \in [1 .. n -> S] /\ \A i, j \in 1 .. n : i # j => b[i] # b[j]
    BY <1>9 DEF Bijection, Injection, IsInjective
  <1>11. keys \in [1 .. n -> S] /\ \A i, j \in 1 .. n : i # j => keys[i] # keys[j]
    BY <1>5, <1>6, <1>10
  <1>12. keys \in Injection(1 .. n, S)
    BY <1>11 DEF Injection, IsInjective
  <1>13. keys \in Surjection(1 .. n, S)
    BY <1>2, <1>8, <1>12, FS_Injection DEF n
  <1>14. \A key \in S : \E k \in 1 .. n : keys[k] = key
    BY <1>13 DEF Surjection
  <1>15. keys \in Seq(TagKeys) /\ Len(keys) = n
    <2>1. keys \in [1 .. n -> TagKeys]
      BY <1>1, <1>11
    <2>2. keys \in Seq(TagKeys)
      BY <1>7, <2>1 DEF Seq
    <2> QED
      BY <1>7, <2>1, <2>2, LenProperties
  <1>16. \A k \in 1 .. n : keys[k] \in TagKeys /\ tags[keys[k]] \in Values
    BY <1>1, <1>3, <1>11
  <1> QED
    BY <1>4, <1>7, <1>11, <1>14, <1>15, <1>16 DEF keys

-----------------------------------------------------------------------------
(* Reading: what the decoder makes of a listing, line by line. *)

\* The states s of a decoder that reads lines e in state d.
DecoderRun(d, e, s) ==
  /\ s \in [0 .. Len(e) -> DecoderState]
  /\ s[0] = d
  /\ \A k \in 1 .. Len(e) : s[k] = Decode(s[k - 1], e[k])

Started == [header |-> FALSE, track |-> Absent, items |-> <<>>]

\* A decoder that has read the lines is in state d.
Reads(lines, d) == \E r : DecoderRun(Started, lines, r) /\ d = r[Len(lines)]

LEMMA DecodedIs ==
  ASSUME NEW lines \in Seq(Line), NEW d, Reads(lines, d)
  PROVE  Decoded(lines) = d.items /\ d \in DecoderState
  <1> DEFINE n == Len(lines)
  <1>1. PICK r : DecoderRun(Started, lines, r) /\ d = r[n]
    BY DEF Reads
  <1>2. n \in Nat /\ \A k \in 1 .. n : lines[k] \in Line
    BY LenProperties, ElementOfSeq
  <1>3. Started \in DecoderState
    BY DEF Started, DecoderState, Maybe
  <1>4. \E q \in [0 .. n -> DecoderState] :
          q = [k \in 0 .. n |-> IF k = 0 THEN Started ELSE Decode(q[k - 1], lines[k])]
    BY <1>3, LinesRecursion
  <1>5. PICK q : /\ q = [k \in 0 .. n |-> IF k = 0 THEN Started ELSE Decode(q[k - 1], lines[k])]
                 /\ Decoded(lines) = q[n].items
    BY <1>4 DEF Decoded, Started
  <1>6. q[0] = Started /\ \A k \in 1 .. n : q[k] = Decode(q[k - 1], lines[k])
    <2>1. 0 \in 0 .. n /\ \A k \in 1 .. n : k \in 0 .. n /\ k # 0
      BY <1>2
    <2> QED
      BY <1>5, <2>1
  <1>7. /\ r \in [0 .. n -> DecoderState] /\ r[0] = Started
        /\ \A k \in 1 .. n : r[k] = Decode(r[k - 1], lines[k])
    BY <1>1 DEF DecoderRun
  <1>8. \A k \in 0 .. n : q[k] = r[k]
    <2> DEFINE f == [k \in 0 .. n |-> IF q[k] = r[k] THEN "same" ELSE "other"]
    <2>1. \A k \in 0 .. n : f[k] \in {"same"} <=> q[k] = r[k]
      OBVIOUS
    <2>2. 0 \in 0 .. n /\ \A k \in 1 .. n : k \in 0 .. n /\ k - 1 \in 0 .. n
      BY <1>2
    <2> HIDE DEF f
    <2>3. f[0] \in {"same"}
      BY <1>6, <1>7, <2>1, <2>2
    <2>4. \A k \in 1 .. n : f[k - 1] \in {"same"} => f[k] \in {"same"}
      BY <1>6, <1>7, <2>1, <2>2
    <2> DEFINE S == {"same"}
    <2>5. \A k \in 0 .. n : f[k] \in S
      <3>1. f[0] \in S /\ \A k \in 1 .. n : f[k - 1] \in S => f[k] \in S
        BY <2>3, <2>4
      <3> HIDE DEF S
      <3> QED
        BY <1>2, <3>1, Kept
    <2> QED
      BY <2>1, <2>5
  <1>9. n \in 0 .. n
    BY <1>2
  <1> QED
    BY <1>1, <1>5, <1>7, <1>8, <1>9

LEMMA ReadsNothing == Reads(<<>>, Started)
  <1> DEFINE r == [k \in 0 .. Len(<<>>) |-> Started]
  <1>1. Started \in DecoderState
    BY DEF Started, DecoderState, Maybe
  <1>2. Len(<<>>) = 0
    OBVIOUS
  <1>3. r \in [0 .. Len(<<>>) -> DecoderState] /\ r[0] = Started
    BY <1>1, <1>2
  <1>4. \A k \in 1 .. Len(<<>>) : FALSE
    BY <1>2
  <1> HIDE DEF r
  <1>5. DecoderRun(Started, <<>>, r) /\ Started = r[Len(<<>>)]
    BY <1>2, <1>3, <1>4 DEF DecoderRun
  <1> QED
    BY <1>5 DEF Reads

\* Reading goes on where it was.
LEMMA ReadsOn ==
  ASSUME NEW a \in Seq(Line), NEW e \in Seq(Line), NEW d, NEW s,
         Reads(a, d), DecoderRun(d, e, s), NEW m \in 0 .. Len(e)
  PROVE  /\ SubSeq(a \o e, 1, Len(a) + m) \in Seq(Line)
         /\ Len(SubSeq(a \o e, 1, Len(a) + m)) = Len(a) + m
         /\ Reads(SubSeq(a \o e, 1, Len(a) + m), s[m])
  <1> DEFINE n == Len(a)
             l == SubSeq(a \o e, 1, n + m)
  <1>1. PICK r : DecoderRun(Started, a, r) /\ d = r[n]
    BY DEF Reads
  <1> DEFINE t == [k \in 0 .. n + m |-> IF k <= n THEN r[k] ELSE s[k - n]]
  <1>2. n \in Nat /\ Len(e) \in Nat /\ m \in Nat /\ m <= Len(e)
    BY LenProperties
  <1>3. /\ a \o e \in Seq(Line) /\ Len(a \o e) = n + Len(e)
        /\ \A k \in 1 .. n + Len(e) : (a \o e)[k] = IF k <= n THEN a[k] ELSE e[k - n]
    BY ConcatProperties
  <1>4. /\ l \in Seq(Line) /\ Len(l) = n + m
        /\ \A k \in 1 .. n + m : l[k] = IF k <= n THEN a[k] ELSE e[k - n]
    <2> DEFINE b == a \o e
    <2> HIDE DEF b
    <2>1. b \in Seq(Line) /\ 1 \in 1 .. n + m + 1 /\ n + m \in 0 .. Len(b)
      BY <1>2, <1>3 DEF b
    <2>2. l = SubSeq(b, 1, n + m)
      BY DEF b
    <2>3. /\ l \in Seq(Line) /\ Len(l) = n + m
          /\ \A k \in 1 .. n + m : l[k] = b[k]
      BY <1>2, <2>1, <2>2
    <2>4. \A k \in 1 .. n + m : k \in 1 .. n + Len(e)
      BY <1>2
    <2> QED
      BY <1>3, <2>3, <2>4 DEF b
  <1>5. /\ r \in [0 .. n -> DecoderState] /\ r[0] = Started
        /\ \A k \in 1 .. n : r[k] = Decode(r[k - 1], a[k])
    BY <1>1 DEF DecoderRun
  <1>6. /\ s \in [0 .. Len(e) -> DecoderState] /\ s[0] = r[n]
        /\ \A k \in 1 .. Len(e) : s[k] = Decode(s[k - 1], e[k])
    BY <1>1 DEF DecoderRun
  <1> HIDE DEF l, n
  <1>7. \A k \in 0 .. n + m : k <= n => k \in 0 .. n
    BY <1>2
  <1>8. \A k \in 0 .. n + m : ~(k <= n) => k - n \in 1 .. Len(e) /\ k - n \in 0 .. Len(e)
    BY <1>2
  <1>9. t \in [0 .. n + m -> DecoderState]
    BY <1>5, <1>6, <1>7, <1>8
  <1>10. \A k \in 0 .. n + m : t[k] = IF k <= n THEN r[k] ELSE s[k - n]
    OBVIOUS
  <1> HIDE DEF t
  <1>11. ASSUME NEW k \in 1 .. n + m
         PROVE  t[k] = Decode(t[k - 1], l[k])
    <2>1. k \in 0 .. n + m /\ k - 1 \in 0 .. n + m /\ k \in Nat
      BY <1>2
    <2>2. CASE k <= n
      <3>1. k \in 1 .. n /\ k - 1 <= n
        BY <1>2, <2>1, <2>2
      <3> QED
        BY <1>4, <1>5, <1>10, <2>1, <2>2, <3>1
    <2>3. CASE k = n + 1
      <3>1. k - 1 = n /\ k - 1 <= n /\ ~(k <= n) /\ k - n = 1 /\ 1 \in 1 .. Len(e) /\ 1 - 1 = 0
        BY <1>2, <1>8, <2>1, <2>3
      <3>2. t[k - 1] = r[n] /\ t[k] = s[1] /\ l[k] = e[1]
        BY <1>4, <1>10, <2>1, <3>1
      <3>3. s[1] = Decode(s[0], e[1])
        BY <1>6, <3>1
      <3> QED
        BY <1>6, <3>2, <3>3
    <2>4. CASE k > n + 1
      <3>1. /\ ~(k <= n) /\ ~(k - 1 <= n) /\ k - n \in 1 .. Len(e)
            /\ k - 1 - n = k - n - 1
        BY <1>2, <1>8, <2>1, <2>4
      <3>2. t[k - 1] = s[k - n - 1] /\ t[k] = s[k - n] /\ l[k] = e[k - n]
        BY <1>4, <1>10, <2>1, <3>1
      <3> QED
        BY <1>6, <3>1, <3>2
    <2>5. k <= n \/ k = n + 1 \/ k > n + 1
      BY <1>2, <2>1
    <2> QED
      BY <2>2, <2>3, <2>4, <2>5
  <1>12. t[0] = Started
    <2>1. 0 \in 0 .. n + m /\ 0 <= n
      BY <1>2
    <2> QED
      BY <1>5, <1>10, <2>1
  <1>13. t[n + m] = s[m]
    <2>1. n + m \in 0 .. n + m
      BY <1>2
    <2>2. CASE m = 0
      <3>1. n + m = n /\ n + m <= n
        BY <1>2, <2>2
      <3> QED
        BY <1>6, <1>10, <2>1, <2>2, <3>1
    <2>3. CASE m # 0
      <3>1. ~(n + m <= n) /\ (n + m) - n = m
        BY <1>2, <2>3
      <3>2. t[n + m] = s[(n + m) - n]
        BY <1>10, <2>1, <3>1
      <3> QED
        BY <3>1, <3>2
    <2> QED
      BY <2>2, <2>3
  <1>14. DecoderRun(Started, l, t) /\ s[m] = t[Len(l)]
    BY <1>4, <1>9, <1>11, <1>12, <1>13 DEF DecoderRun
  <1>15. Reads(l, s[m])
    BY <1>14 DEF Reads
  <1> QED
    BY <1>4, <1>15 DEF l, n

-----------------------------------------------------------------------------
(* How a line changes what was read: by the track that it is in, and by nothing  *)
(* that was read before.                                                         *)

TrackAfter(t, line) ==
  CASE line.kind = "extinf"    -> parseExtInfLine(line)
    [] line.kind = "badExtinf" -> Absent
    [] t # Absent /\ line.kind = "tag" /\ line.key \in Whitelisted ->
          [t EXCEPT !.tags[line.key] = line.value]
    [] t # Absent /\ line.kind = "uri" -> Absent
    [] OTHER -> t

Yields(t, line) ==
  IF line.kind = "badExtinf" THEN <<Rejected>>
  ELSE IF t # Absent /\ line.kind = "uri"
       THEN IF line.value \in BadURLs THEN <<Rejected>> ELSE <<[t EXCEPT !.uri = line.value]>>
       ELSE <<>>

LEMMA Failed ==
  ASSUME NEW d \in DecoderState
  PROVE  LET failed == [d EXCEPT !.items = Append(@, Rejected), !.track = Absent] IN
         /\ failed.header = d.header /\ failed.track = Absent
         /\ failed.items = Append(d.items, Rejected)
         /\ d.items \o <<Rejected>> = Append(d.items, Rejected)
         /\ <<Rejected>> \in Seq(Elements)
  <1>1. d.items \in Seq(Elements) /\ Rejected \in Elements
    BY DEF DecoderState, Elements
  <1>2. d.items \o <<Rejected>> = Append(d.items, Rejected)
    BY <1>1, AppendIsConcat
  <1>3. <<Rejected>> \in Seq(Elements)
    BY <1>1
  <1> QED
    BY <1>2, <1>3 DEF DecoderState

LEMMA DecodeIs ==
  ASSUME NEW d \in DecoderState, d.header, NEW line \in Line
  PROVE  /\ Decode(d, line).header
         /\ Decode(d, line).track = TrackAfter(d.track, line)
         /\ Decode(d, line).items = d.items \o Yields(d.track, line)
         /\ Yields(d.track, line) \in Seq(Elements)
         /\ Len(Yields(d.track, line)) <= 1
  <1> DEFINE c == Decode(d, line)
             t == d.track
             failed == [d EXCEPT !.items = Append(@, Rejected), !.track = Absent]
             Goal == /\ c.header /\ c.track = TrackAfter(t, line)
                     /\ c.items = d.items \o Yields(t, line)
                     /\ Yields(t, line) \in Seq(Elements) /\ Len(Yields(t, line)) <= 1
  <1>1. d.items \in Seq(Elements) /\ t \in Maybe(Track) /\ d.header = TRUE
    BY DEF DecoderState
  <1>2. d.items \o <<>> = d.items /\ <<>> \in Seq(Elements) /\ Len(<<>>) = 0
    BY <1>1, ConcatEmptySeq
  <1>3. /\ failed.header /\ failed.track = Absent
        /\ failed.items = d.items \o <<Rejected>> /\ <<Rejected>> \in Seq(Elements)
        /\ Len(<<Rejected>>) = 1
    BY <1>1, Failed
  <1> HIDE DEF failed
  <1>4. CASE line.kind = "extinf"
    <2>1. c = [d EXCEPT !.track = parseExtInfLine(line)]
      BY <1>1, <1>4 DEF Decode
    <2>2. TrackAfter(t, line) = parseExtInfLine(line) /\ Yields(t, line) = <<>>
      BY <1>4 DEF TrackAfter, Yields
    <2> HIDE DEF c
    <2>3. c.header /\ c.track = parseExtInfLine(line) /\ c.items = d.items
      BY <1>1, <2>1 DEF DecoderState
    <2> QED
      BY <1>2, <2>2, <2>3 DEF c
  <1>5. CASE line.kind = "badExtinf"
    <2>1. c = failed
      BY <1>1, <1>5 DEF Decode, failed
    <2>2. TrackAfter(t, line) = Absent /\ Yields(t, line) = <<Rejected>>
      BY <1>5 DEF TrackAfter, Yields
    <2> QED
      BY <1>3, <2>1, <2>2
  <1>6. CASE t # Absent /\ line.kind = "tag" /\ line.key \in Whitelisted
    <2> DEFINE tagged == [t EXCEPT !.tags[line.key] = line.value]
    <2>1. TrackAfter(t, line) = tagged /\ Yields(t, line) = <<>>
      BY <1>6 DEF TrackAfter, Yields
    <2>2. c = [d EXCEPT !.track = tagged]
      BY <1>1, <1>6 DEF Decode
    <2> HIDE DEF c, tagged
    <2>3. c.header /\ c.track = tagged /\ c.items = d.items
      BY <1>1, <2>2 DEF DecoderState
    <2> QED
      BY <1>2, <2>1, <2>3 DEF c
  <1>7. CASE t # Absent /\ line.kind = "uri" /\ line.value \in BadURLs
    <2>1. c = failed
      BY <1>1, <1>7 DEF Decode, failed
    <2>2. TrackAfter(t, line) = Absent /\ Yields(t, line) = <<Rejected>>
      BY <1>7 DEF TrackAfter, Yields
    <2> QED
      BY <1>3, <2>1, <2>2
  <1>8. CASE t # Absent /\ line.kind = "uri" /\ line.value \notin BadURLs
    <2> DEFINE found == [t EXCEPT !.uri = line.value]
               more == Append(d.items, found)
               none == Absent
    <2>1. line.value \in Values
      BY <1>8 DEF Line
    <2>2. t \in Track
      BY <1>1, <1>8 DEF Maybe
    <2>3. found \in Elements
      BY <1>8, <2>1, <2>2 DEF Track, Elements, URI
    <2>4. TrackAfter(t, line) = Absent /\ Yields(t, line) = <<found>>
      BY <1>8 DEF TrackAfter, Yields
    <2>5. c = [d EXCEPT !.items = Append(d.items, found), !.track = Absent]
      BY <1>1, <1>8 DEF Decode
    <2> HIDE DEF found
    <2>6. <<found>> \in Seq(Elements) /\ Len(<<found>>) = 1 /\ more = d.items \o <<found>>
      BY <1>1, <2>3, AppendIsConcat
    <2>7. c = [d EXCEPT !.items = more, !.track = none]
      BY <2>5
    <2> HIDE DEF c, more, none
    <2>8. c.header /\ c.track = none /\ c.items = more
      BY <1>1, <2>7 DEF DecoderState
    <2> QED
      BY <2>4, <2>6, <2>8 DEF none, c
  <1>9. CASE /\ line.kind \notin {"extinf", "badExtinf"}
             /\ ~(t # Absent /\ line.kind = "tag" /\ line.key \in Whitelisted)
             /\ ~(t # Absent /\ line.kind = "uri")
    <2>1. c = d
      BY <1>1, <1>9 DEF Decode
    <2>2. TrackAfter(t, line) = t /\ Yields(t, line) = <<>>
      BY <1>9 DEF TrackAfter, Yields
    <2> QED
      BY <1>1, <1>2, <2>1, <2>2
  <1>10. Goal
    <2> HIDE DEF Goal
    <2> QED
      BY <1>4, <1>5, <1>6, <1>7, <1>8, <1>9 DEF Goal
  <1> QED
    BY <1>10

\* A sequence begins another one.
Begins(a, b) == Len(a) <= Len(b) /\ \A k \in 1 .. Len(a) : a[k] = b[k]

LEMMA BeginsOn ==
  ASSUME NEW S, NEW a \in Seq(S), NEW b \in Seq(S), NEW c \in Seq(S), Begins(a, b)
  PROVE  Begins(a, b \o c)
  <1>1. Len(a) \in Nat /\ Len(b) \in Nat /\ Len(c) \in Nat
    BY LenProperties
  <1>2. /\ Len(b \o c) = Len(b) + Len(c)
        /\ \A k \in 1 .. Len(b) + Len(c) : (b \o c)[k] = IF k <= Len(b) THEN b[k] ELSE c[k - Len(b)]
    BY ConcatProperties
  <1>3. \A k \in 1 .. Len(a) : k \in 1 .. Len(b) + Len(c) /\ k <= Len(b)
    BY <1>1 DEF Begins
  <1> QED
    BY <1>1, <1>2, <1>3 DEF Begins

\* What was read is not lost by a line, and at most one item is new.
LEMMA DecodeGrows ==
  ASSUME NEW d \in DecoderState, NEW line \in Line
  PROVE  \E new \in Seq(Elements) :
            Len(new) <= 1 /\ Decode(d, line).items = d.items \o new
  <1>1. CASE d.header
    BY <1>1, DecodeIs
  <1>2. CASE ~d.header /\ line.kind = "header"
    <2>1. Decode(d, line).items = d.items
      BY <1>2 DEF Decode, DecoderState
    <2>2. d.items \o <<>> = d.items /\ <<>> \in Seq(Elements) /\ Len(<<>>) <= 1
      BY ConcatEmptySeq DEF DecoderState
    <2> QED
      BY <2>1, <2>2
  <1>3. CASE ~d.header /\ line.kind # "header"
    <2> DEFINE failed == [d EXCEPT !.items = Append(@, Rejected), !.track = Absent]
    <2>1. Decode(d, line) = failed
      BY <1>3 DEF Decode
    <2>2. /\ failed.items = d.items \o <<Rejected>> /\ <<Rejected>> \in Seq(Elements)
          /\ Len(<<Rejected>>) <= 1
      BY Failed
    <2> QED
      BY <2>1, <2>2
  <1> QED
    BY <1>1, <1>2, <1>3

LEMMA RunExists ==
  ASSUME NEW d \in DecoderState, NEW e \in Seq(Line)
  PROVE  \E s : DecoderRun(d, e, s)
  <1> DEFINE n == Len(e)
  <1>1. PICK s \in [0 .. n -> DecoderState] :
           s = [k \in 0 .. n |-> IF k = 0 THEN d ELSE Decode(s[k - 1], e[k])]
    BY LinesRecursion
  <1>2. n \in Nat
    BY LenProperties
  <1>3. 0 \in 0 .. n /\ \A k \in 1 .. n : k \in 0 .. n /\ k # 0
    BY <1>2
  <1>4. s[0] = d /\ \A k \in 1 .. n : s[k] = Decode(s[k - 1], e[k])
    BY <1>1, <1>3
  <1>5. DecoderRun(d, e, s)
    BY <1>4 DEF DecoderRun
  <1> QED
    BY <1>5

LEMMA AllRead ==
  ASSUME NEW e \in Seq(Line)
  PROVE  \E d \in DecoderState : Reads(e, d)
  <1>1. Started \in DecoderState
    BY DEF Started, DecoderState, Maybe
  <1>2. PICK s : DecoderRun(Started, e, s)
    BY <1>1, RunExists
  <1>3. Reads(e, s[Len(e)])
    BY <1>2 DEF Reads
  <1>4. s[Len(e)] \in DecoderState
    BY <1>3, DecodedIs
  <1> QED
    BY <1>3, <1>4

LEMMA ReadsAllOn ==
  ASSUME NEW a \in Seq(Line), NEW e \in Seq(Line), NEW d, NEW s,
         Reads(a, d), DecoderRun(d, e, s)
  PROVE  a \o e \in Seq(Line) /\ Reads(a \o e, s[Len(e)])
  <1>1. Len(e) \in 0 .. Len(e) /\ Len(a) \in Nat /\ Len(e) \in Nat
    BY LenProperties
  <1>2. a \o e \in Seq(Line) /\ Len(a \o e) = Len(a) + Len(e)
    BY ConcatProperties
  <1>3. SubSeq(a \o e, 1, Len(a) + Len(e)) = a \o e
    <2> DEFINE b == a \o e
    <2> HIDE DEF b
    <2>1. SubSeq(b, 1, Len(b)) = b
      BY <1>2, SubSeqFull DEF b
    <2> QED
      BY <1>2, <2>1 DEF b
  <1>4. Reads(SubSeq(a \o e, 1, Len(a) + Len(e)), s[Len(e)])
    BY <1>1, ReadsOn
  <1> QED
    BY <1>2, <1>3, <1>4

\* One line more.
LEMMA ReadsOne ==
  ASSUME NEW a \in Seq(Line), NEW d, Reads(a, d), NEW line \in Line
  PROVE  Append(a, line) \in Seq(Line) /\ Reads(Append(a, line), Decode(d, line))
  <1> DEFINE e == <<line>>
  <1>1. d \in DecoderState
    BY DecodedIs
  <1>2. e \in Seq(Line) /\ Len(e) = 1 /\ e[1] = line
    OBVIOUS
  <1>3. a \o e = Append(a, line)
    BY AppendIsConcat
  <1> HIDE DEF e
  <1>4. PICK s : DecoderRun(d, e, s)
    BY <1>1, <1>2, RunExists
  <1>5. s[1] = Decode(d, line)
    <2>1. 1 \in 1 .. Len(e) /\ 1 - 1 = 0
      BY <1>2
    <2> QED
      BY <1>2, <1>4, <2>1 DEF DecoderRun
  <1>6. a \o e \in Seq(Line) /\ Reads(a \o e, s[Len(e)])
    BY <1>2, <1>4, ReadsAllOn
  <1> QED
    BY <1>2, <1>3, <1>5, <1>6

\* What is read of the first lines begins what is read of all.
LEMMA FirstRead ==
  ASSUME NEW lines \in Seq(Line), NEW d, Reads(lines, d), NEW m \in 0 .. Len(lines)
  PROVE  /\ SubSeq(lines, 1, m) \in Seq(Line)
         /\ \E q \in DecoderState : Reads(SubSeq(lines, 1, m), q) /\ Begins(q.items, d.items)
  <1> DEFINE n == Len(lines)
             l == SubSeq(lines, 1, m)
  <1>1. n \in Nat /\ m \in Nat /\ m <= n /\ \A k \in 1 .. n : lines[k] \in Line
    BY LenProperties, ElementOfSeq
  <1>2. PICK r : DecoderRun(Started, lines, r) /\ d = r[n]
    BY DEF Reads
  <1>3. /\ r \in [0 .. n -> DecoderState] /\ r[0] = Started
        /\ \A k \in 1 .. n : r[k] = Decode(r[k - 1], lines[k])
    BY <1>2 DEF DecoderRun
  <1>4. l \in Seq(Line) /\ Len(l) = m /\ \A k \in 1 .. m : l[k] = lines[k]
    <2>1. \A i \in 1 .. m : lines[i] \in Line
      BY <1>1
    <2>2. /\ SubSeq(lines, 1, m) \in Seq(Line)
          /\ Len(SubSeq(lines, 1, m)) = IF 1 <= m THEN m - 1 + 1 ELSE 0
          /\ \A i \in 1 .. m - 1 + 1 : SubSeq(lines, 1, m)[i] = lines[1 + i - 1]
      BY <1>1, <2>1, SubSeqProperties
    <2>3. /\ m - 1 + 1 = m /\ (IF 1 <= m THEN m - 1 + 1 ELSE 0) = m
          /\ \A i \in 1 .. m : 1 + i - 1 = i
      BY <1>1
    <2> QED
      BY <2>2, <2>3
  <1> HIDE DEF l, n
  <1> DEFINE s == [k \in 0 .. m |-> r[k]]
  <1>5. DecoderRun(Started, l, s)
    <2>1. \A k \in 0 .. m : k \in 0 .. n /\ s[k] = r[k]
      BY <1>1
    <2>2. 0 \in 0 .. m /\ \A k \in 1 .. m : k \in 1 .. n /\ k \in 0 .. m /\ k - 1 \in 0 .. m
      BY <1>1
    <2>3. s \in [0 .. m -> DecoderState]
      BY <1>3, <2>1
    <2> HIDE DEF s
    <2>4. s[0] = Started /\ \A k \in 1 .. m : s[k] = Decode(s[k - 1], l[k])
      BY <1>3, <1>4, <2>1, <2>2
    <2> QED
      BY <1>4, <2>3, <2>4 DEF DecoderRun
  <1>6. m \in 0 .. m /\ m \in 0 .. n /\ n \in 0 .. n /\ s[m] = r[m]
    BY <1>1
  <1> HIDE DEF s
  <1>7. Reads(l, r[m])
    BY <1>4, <1>5, <1>6 DEF Reads
  <1> DEFINE a == r[m].items
             f == [k \in 0 .. n |-> IF k < m \/ Begins(a, r[k].items) THEN "begins" ELSE "other"]
             S == {"begins"}
  <1>8. \A k \in 0 .. n : r[k].items \in Seq(Elements)
    BY <1>3 DEF DecoderState
  <1>9. a \in Seq(Elements)
    BY <1>6, <1>8
  <1>10. Begins(a, a)
    <2>1. Len(a) \in Nat
      BY <1>9, LenProperties
    <2> QED
      BY <2>1 DEF Begins
  <1>11. \A k \in 0 .. n : f[k] \in S <=> k < m \/ Begins(a, r[k].items)
    OBVIOUS
  <1>12. \A k \in 0 .. n : k < m \/ k = m \/ k - 1 >= m
    BY <1>1
  <1> HIDE DEF f, S
  <1>13. 0 \in 0 .. n /\ f[0] \in S
    <2>1. 0 < m \/ 0 = m
      BY <1>1
    <2>2. 0 \in 0 .. n
      BY <1>1
    <2> QED
      BY <1>10, <1>11, <2>1, <2>2
  <1> HIDE DEF a
  <1>14. ASSUME NEW k \in 1 .. n, f[k - 1] \in S
         PROVE  f[k] \in S
    <2>1. k \in 0 .. n /\ k - 1 \in 0 .. n
      BY <1>1
    <2>2. CASE k < m
      BY <1>11, <2>1, <2>2
    <2>3. CASE k = m
      <3>1. Begins(a, r[k].items)
        BY <1>10, <2>3 DEF a
      <3> QED
        BY <1>11, <2>1, <3>1
    <2>4. CASE k - 1 >= m
      <3>1. ~(k - 1 < m)
        BY <1>1, <2>1, <2>4
      <3>2. Begins(a, r[k - 1].items)
        BY <1>11, <1>14, <2>1, <3>1
      <3>3. r[k - 1] \in DecoderState /\ lines[k] \in Line
        BY <1>1, <1>3, <2>1
      <3>4. PICK new \in Seq(Elements) : Decode(r[k - 1], lines[k]).items = r[k - 1].items \o new
        BY <3>3, DecodeGrows
      <3>5. r[k].items = r[k - 1].items \o new
        BY <1>3, <3>4
      <3>6. Begins(a, r[k - 1].items \o new)
        BY <1>8, <1>9, <2>1, <3>2, BeginsOn
      <3> QED
        BY <1>11, <2>1, <3>5, <3>6
    <2> QED
      BY <1>12, <2>1, <2>2, <2>3, <2>4
  <1>15. \A k \in 0 .. n : f[k] \in S
    BY <1>1, <1>13, <1>14, Kept
  <1>16. Begins(a, r[n].items)
    <2>1. ~(n < m)
      BY <1>1
    <2> QED
      BY <1>6, <1>11, <1>15, <2>1
  <1>17. r[m] \in DecoderState /\ Begins(r[m].items, d.items)
    BY <1>2, <1>3, <1>6, <1>16 DEF a, n
  <1> QED
    BY <1>4, <1>7, <1>17 DEF l

\* State s is one that has read what d has, and then what q has.
Follows(s, d, q) ==
  s.header /\ q.items \in Seq(Elements) /\ s.items = d.items \o q.items

\* Lines that begin with a track are read in the same way, whatever was read before.
LEMMA ReadAnywhere ==
  ASSUME NEW c \in DecoderState, NEW d \in DecoderState, c.header, d.header, c.items = <<>>,
         NEW e \in Seq(Line), e # <<>>, e[1].kind = "extinf",
         NEW q, NEW s, DecoderRun(c, e, q), DecoderRun(d, e, s)
  PROVE  Follows(s[Len(e)], d, q[Len(e)])
  <1> DEFINE n == Len(e)
             alike(k) == /\ q[k].header /\ s[k].header /\ s[k].items = d.items \o q[k].items
                         /\ k > 0 => s[k].track = q[k].track
             f == [k \in 0 .. n |-> IF alike(k) THEN "alike" ELSE "other"]
             S == {"alike"}
  <1>1. n \in Nat \ {0} /\ \A k \in 1 .. n : e[k] \in Line
    BY LenProperties, ElementOfSeq, EmptySeq
  <1>2. /\ q \in [0 .. n -> DecoderState] /\ q[0] = c
        /\ \A k \in 1 .. n : q[k] = Decode(q[k - 1], e[k])
    BY DEF DecoderRun
  <1>3. /\ s \in [0 .. n -> DecoderState] /\ s[0] = d
        /\ \A k \in 1 .. n : s[k] = Decode(s[k - 1], e[k])
    BY DEF DecoderRun
  <1> HIDE DEF n
  <1>4. \A k \in 0 .. n : f[k] \in S <=> alike(k)
    OBVIOUS
  <1> HIDE DEF f, S
  <1>5. f[0] \in S
    <2>1. d.items \o <<>> = d.items
      BY ConcatEmptySeq DEF DecoderState
    <2>2. 0 \in 0 .. n /\ ~(0 > 0)
      BY <1>1
    <2> QED
      BY <1>2, <1>3, <1>4, <2>1, <2>2
  <1>6. ASSUME NEW k \in 1 .. n, f[k - 1] \in S
        PROVE  f[k] \in S
    <2>1. k \in 0 .. n /\ k - 1 \in 0 .. n /\ k > 0 /\ (k - 1 > 0 \/ k = 1)
      BY <1>1
    <2>2. alike(k - 1)
      BY <1>4, <1>6, <2>1
    <2> DEFINE u == q[k - 1]
               v == s[k - 1]
               line == e[k]
    <2>3. u \in DecoderState /\ v \in DecoderState /\ line \in Line /\ u.header /\ v.header
      BY <1>1, <1>2, <1>3, <2>1, <2>2
    <2>4. TrackAfter(v.track, line) = TrackAfter(u.track, line)
          /\ Yields(v.track, line) = Yields(u.track, line)
      <3>1. CASE k = 1
        <4>1. line.kind = "extinf"
          BY <3>1
        <4> HIDE DEF u, v, line
        <4> QED
          BY <4>1 DEF TrackAfter, Yields
      <3>2. CASE k - 1 > 0
        <4>1. v.track = u.track
          BY <2>2, <3>2
        <4> HIDE DEF u, v, line
        <4> QED
          BY <4>1
      <3> QED
        BY <2>1, <3>1, <3>2
    <2>5. /\ Decode(u, line).header /\ Decode(u, line).track = TrackAfter(u.track, line)
          /\ Decode(u, line).items = u.items \o Yields(u.track, line)
          /\ Yields(u.track, line) \in Seq(Elements)
      <3> HIDE DEF u, line
      <3> QED
        BY <2>3, DecodeIs
    <2>6. /\ Decode(v, line).header /\ Decode(v, line).track = TrackAfter(v.track, line)
          /\ Decode(v, line).items = v.items \o Yields(v.track, line)
      <3> HIDE DEF v, line
      <3> QED
        BY <2>3, DecodeIs
    <2>7. q[k] = Decode(u, line) /\ s[k] = Decode(v, line) /\ v.items = d.items \o u.items
      BY <1>2, <1>3, <2>2
    <2>8. u.items \in Seq(Elements) /\ d.items \in Seq(Elements)
      BY <2>3 DEF DecoderState
    <2> HIDE DEF u, v, line
    <2>9. (d.items \o u.items) \o Yields(u.track, line) = d.items \o (u.items \o Yields(u.track, line))
      <3>1. \A x, y, z \in Seq(Elements) : (x \o y) \o z = x \o (y \o z)
        BY ConcatAssociative
      <3> DEFINE x == d.items
                 y == u.items
                 z == Yields(u.track, line)
      <3>2. x \in Seq(Elements) /\ y \in Seq(Elements) /\ z \in Seq(Elements)
        BY <2>5, <2>8
      <3> HIDE DEF x, y, z
      <3>3. (x \o y) \o z = x \o (y \o z)
        BY <3>1, <3>2, Zenon
      <3> QED
        BY <3>3 DEF x, y, z
    <2>10. s[k].items = d.items \o q[k].items
      BY <2>4, <2>5, <2>6, <2>7, <2>9
    <2>11. alike(k)
      BY <2>4, <2>5, <2>6, <2>7, <2>10
    <2> QED
      BY <1>4, <2>1, <2>11
  <1>7. \A k \in 0 .. n : f[k] \in S
    BY <1>1, <1>5, <1>6, Kept
  <1>8. n \in 0 .. n
    BY <1>1
  <1>9. alike(n) /\ q[n].items \in Seq(Elements)
    BY <1>2, <1>4, <1>7, <1>8 DEF DecoderState
  <1> QED
    BY <1>9 DEF n, Follows

-----------------------------------------------------------------------------
(* What is read of the lines that encodeTrack writes. *)

LEMMA InfoLineType ==
  ASSUME NEW ch \in Channel
  PROVE  /\ InfoLine(ch.attrs, ch.name) \in
              [kind : {"extinf"}, attrs : Fields(AttrKeys), parts : Seq(Values)]
         /\ InfoLine(ch.attrs, ch.name) \in Line
  <1> DEFINE attrs == Found[<<ch.attrs, ch.name>>]
             parts == IF ch.name = "" THEN AttrParts[ch.attrs]
                      ELSE AttrParts[ch.attrs] \o Parts[ch.name]
  <1>1. ch.name \in Values /\ ch.attrs \in Fields(AttrKeys)
    BY DEF Channel
  <1>2. attrs \in Fields(AttrKeys)
    <2>1. <<ch.attrs, ch.name>> \in Fields(AttrKeys) \X Values
      BY <1>1
    <2> QED
      BY <2>1, FoundAssumption
  <1>3. Parts[ch.name] \in Seq(Values) /\ AttrParts[ch.attrs] \in Seq(Values)
    BY <1>1, PartsAssumption
  <1>4. parts \in Seq(Values)
    BY <1>3, ConcatProperties
  <1>5. InfoLine(ch.attrs, ch.name) = [kind |-> "extinf", attrs |-> attrs, parts |-> parts]
    BY DEF InfoLine, ExtInfLine
  <1> HIDE DEF attrs, parts
  <1>6. InfoLine(ch.attrs, ch.name) \in
          [kind : {"extinf"}, attrs : Fields(AttrKeys), parts : Seq(Values)]
    BY <1>2, <1>4, <1>5
  <1> QED
    BY <1>6 DEF Line

\* What follows #EXTINF, one line for each tag, and the URI.
LEMMA TrackLines ==
  ASSUME NEW ch \in Channel, NEW uri \in Values
  PROVE  LET e == encodeTrack(ch, uri)
             keys == KeySeq(ch.tags)
             n == Len(keys) IN
         /\ n \in Nat /\ e \in Seq(Line) /\ Len(e) = n + 2 /\ e # <<>>
         /\ e[1] = InfoLine(ch.attrs, ch.name)
         /\ \A k \in 1 .. n : e[k + 1] = TagText[<<keys[k], ch.tags[keys[k]]>>]
         /\ e[n + 2] = Alone[uri]
  <1> DEFINE e == encodeTrack(ch, uri)
             keys == KeySeq(ch.tags)
             n == Len(keys)
             first == InfoLine(ch.attrs, ch.name)
             tags == [k \in DOMAIN keys |-> TagText[<<keys[k], ch.tags[keys[k]]>>]]
             last == Alone[uri]
  <1>1. ch.tags \in Fields(TagKeys)
    BY DEF Channel
  <1>2. /\ n \in Nat /\ DOMAIN keys = 1 .. n
        /\ \A k \in 1 .. n : keys[k] \in TagKeys /\ ch.tags[keys[k]] \in Values
    BY <1>1, KeySeqType
  <1>3. e = <<first>> \o tags \o <<last>>
    BY DEF encodeTrack, TagTexts
  <1>4. first \in Line
    BY InfoLineType
  <1>5. last \in Line
    BY LinesAssumption
  <1>6. \A k \in 1 .. n : TagText[<<keys[k], ch.tags[keys[k]]>>] \in Line
    <2>1. \A key \in TagKeys, v \in Values : TagText[<<key, v>>] \in Line
      BY LinesAssumption
    <2> HIDE DEF keys, n
    <2> QED
      BY <1>2, <2>1
  <1>7. /\ tags \in Seq(Line) /\ Len(tags) = n
        /\ \A k \in 1 .. n : tags[k] = TagText[<<keys[k], ch.tags[keys[k]]>>]
    <2> HIDE DEF keys, n
    <2>1. tags \in [1 .. n -> Line]
      BY <1>2, <1>6
    <2>2. tags \in Seq(Line)
      BY <1>2, <2>1 DEF Seq
    <2>3. Len(tags) = n
      <3> HIDE DEF tags
      <3> QED
        BY <1>2, <2>1, <2>2, LenProperties
    <2> QED
      BY <1>2, <2>2, <2>3
  <1> HIDE DEF e, keys, n, first, tags, last
  <1>8. /\ <<first>> \in Seq(Line) /\ Len(<<first>>) = 1 /\ <<first>>[1] = first
        /\ <<last>> \in Seq(Line) /\ Len(<<last>>) = 1 /\ <<last>>[1] = last
    BY <1>4, <1>5
  <1> DEFINE b == <<first>> \o tags
  <1>9. /\ b \in Seq(Line) /\ Len(b) = n + 1 /\ b[1] = first
        /\ \A k \in 1 .. n : b[k + 1] = tags[k]
    <2>1. /\ b \in Seq(Line) /\ Len(b) = 1 + n
          /\ \A k \in 1 .. 1 + n : b[k] = IF k <= 1 THEN <<first>>[k] ELSE tags[k - 1]
      BY <1>7, <1>8, ConcatProperties
    <2> HIDE DEF b
    <2>2. 1 \in 1 .. 1 + n /\ 1 <= 1
      BY <1>2
    <2>3. \A k \in 1 .. n : k + 1 \in 1 .. 1 + n /\ ~(k + 1 <= 1) /\ (k + 1) - 1 = k
      BY <1>2
    <2> QED
      BY <1>2, <1>8, <2>1, <2>2, <2>3
  <1>10. e = b \o <<last>>
    BY <1>3
  <1> HIDE DEF b
  <1>11. /\ e \in Seq(Line) /\ Len(e) = n + 2
         /\ \A k \in 1 .. n + 1 : e[k] = b[k]
         /\ e[n + 2] = last
    <2>1. /\ e \in Seq(Line) /\ Len(e) = (n + 1) + 1
          /\ \A k \in 1 .. (n + 1) + 1 : e[k] = IF k <= n + 1 THEN b[k] ELSE <<last>>[k - (n + 1)]
      BY <1>8, <1>9, <1>10, ConcatProperties
    <2>2. /\ (n + 1) + 1 = n + 2 /\ n + 2 \in 1 .. (n + 1) + 1 /\ ~(n + 2 <= n + 1)
          /\ (n + 2) - (n + 1) = 1
      BY <1>2
    <2>3. \A k \in 1 .. n + 1 : k \in 1 .. (n + 1) + 1 /\ k <= n + 1
      BY <1>2
    <2> QED
      BY <1>8, <2>1, <2>2, <2>3
  <1>12. 1 \in 1 .. n + 1 /\ \A k \in 1 .. n : k + 1 \in 1 .. n + 1
    BY <1>2
  <1>13. e[1] = first /\ \A k \in 1 .. n : e[k + 1] = tags[k]
    BY <1>9, <1>11, <1>12
  <1>14. e # <<>>
    <2>1. Len(e) # 0
      BY <1>2, <1>11
    <2> QED
      BY <2>1
  <1> QED
    BY <1>2, <1>7, <1>11, <1>13, <1>14 DEF e, keys, n, first, last

\* A decoder that has read these items and is in no track.
Between(items) == [header |-> TRUE, track |-> Absent, items |-> items]

LEMMA HeaderRead ==
  LET h == <<HeaderLine>> IN
  /\ h \in Seq(Line) /\ Reads(h, Between(<<>>)) /\ Between(<<>>) \in DecoderState
  /\ Between(<<>>).header /\ Between(<<>>).items = <<>> /\ Between(<<>>).track = Absent
  <1> DEFINE h == <<HeaderLine>>
  <1>1. HeaderLine \in Line
    BY DEF HeaderLine, Line
  <1>2. h \in Seq(Line) /\ h = Append(<<>>, HeaderLine) /\ <<>> \in Seq(Line)
    BY <1>1
  <1>3. Decode(Started, HeaderLine) = Between(<<>>)
    <2>1. Started.header = FALSE /\ HeaderLine.kind = "header"
      BY DEF Started, HeaderLine
    <2>2. Decode(Started, HeaderLine) = [Started EXCEPT !.header = TRUE]
      BY <2>1 DEF Decode
    <2>3. [Started EXCEPT !.header = TRUE] = Between(<<>>)
      <3> DEFINE yes == TRUE
                 no == FALSE
                 none == Absent
                 nothing == <<>>
      <3>1. Started = [header |-> no, track |-> none, items |-> nothing]
        BY DEF Started
      <3>2. Between(<<>>) = [header |-> yes, track |-> none, items |-> nothing]
        BY DEF Between
      <3> HIDE DEF yes, no, none, nothing
      <3>3. [Started EXCEPT !.header = yes] = [header |-> yes, track |-> none, items |-> nothing]
        BY <3>1
      <3> QED
        BY <3>2, <3>3 DEF yes
    <2> QED
      BY <2>2, <2>3
  <1>4. Reads(Append(<<>>, HeaderLine), Decode(Started, HeaderLine))
    BY <1>1, <1>2, ReadsNothing, ReadsOne
  <1>5. Between(<<>>) \in DecoderState
    BY DEF Between, DecoderState, Maybe
  <1> QED
    BY <1>2, <1>3, <1>4, <1>5 DEF Between

\* All lines are read as what d has read, and then the items of alone.
Adds(all, d, alone) ==
  /\ all \in Seq(Line) /\ alone \in Seq(Elements)
  /\ \E q \in DecoderState : Reads(all, q) /\ q.header /\ q.items = d.items \o alone

\* A listing that has begun, and a track behind it.
LEMMA TrackAppended ==
  ASSUME NEW b \in Seq(Line), NEW d, Reads(b, d), d.header, NEW ch \in Channel, NEW uri \in Values
  PROVE  Adds(b \o encodeTrack(ch, uri), d, Decoded(<<HeaderLine>> \o encodeTrack(ch, uri)))
  <1> DEFINE e == encodeTrack(ch, uri)
             h == <<HeaderLine>>
             c == Between(<<>>)
  <1>1. e \in Seq(Line) /\ e # <<>> /\ e[1] = InfoLine(ch.attrs, ch.name)
    BY TrackLines
  <1>2. e[1].kind = "extinf"
    BY <1>1, InfoLineType
  <1>3. h \in Seq(Line) /\ Reads(h, c) /\ c \in DecoderState /\ c.header /\ c.items = <<>>
    BY HeaderRead
  <1>4. d \in DecoderState
    BY DecodedIs
  <1> HIDE DEF e, h, c
  <1>5. PICK r : DecoderRun(c, e, r)
    BY <1>1, <1>3, RunExists
  <1>6. PICK s : DecoderRun(d, e, s)
    BY <1>1, <1>4, RunExists
  <1>7. Follows(s[Len(e)], d, r[Len(e)])
    BY <1>1, <1>2, <1>3, <1>4, <1>5, <1>6, ReadAnywhere, Zenon
  <1>8. h \o e \in Seq(Line) /\ Reads(h \o e, r[Len(e)])
    BY <1>1, <1>3, <1>5, ReadsAllOn
  <1>9. Decoded(h \o e) = r[Len(e)].items
    BY <1>8, DecodedIs
  <1>10. b \o e \in Seq(Line) /\ Reads(b \o e, s[Len(e)])
    BY <1>1, <1>6, ReadsAllOn
  <1>11. s[Len(e)] \in DecoderState
    BY <1>10, DecodedIs
  <1> QED
    BY <1>7, <1>9, <1>10, <1>11 DEF e, h, Follows, Adds

\* The next channel adds what is read of it alone.
LEMMA EncodedIsRead ==
  ASSUME NEW a \in Seq(Line), NEW d, Reads(a, d), a # <<>> => d.header,
         NEW ch \in Channel, NEW uri \in Values
  PROVE  LET all == Encode(a, ch, uri)
             alone == Decoded(<<HeaderLine>> \o encodeTrack(ch, uri)) IN
         /\ all \in Seq(Line) /\ alone \in Seq(Elements)
         /\ \E q \in DecoderState :
               Reads(all, q) /\ q.header /\ q.items = d.items \o alone
  <1> DEFINE h == <<HeaderLine>>
             c == Between(<<>>)
             e == encodeTrack(ch, uri)
             alone == Decoded(<<HeaderLine>> \o encodeTrack(ch, uri))
  <1>1. CASE a = <<>>
    <2>1. Encode(a, ch, uri) = h \o e
      BY <1>1 DEF Encode
    <2>2. h \in Seq(Line) /\ Reads(h, c) /\ c.header /\ c.items = <<>>
      BY HeaderRead
    <2>3. d.items = <<>>
      <3>1. PICK r : DecoderRun(Started, a, r) /\ d = r[Len(a)]
        BY DEF Reads
      <3>2. d = Started
        BY <1>1, <3>1 DEF DecoderRun
      <3> QED
        BY <3>2 DEF Started
    <2> HIDE DEF h, c
    <2>4. Adds(h \o e, c, alone)
      BY <2>2, TrackAppended, Zenon
    <2> HIDE DEF e, alone
    <2> QED
      BY <2>1, <2>2, <2>3, <2>4 DEF alone, Adds
  <1>2. CASE a # <<>>
    <2>1. Encode(a, ch, uri) = a \o encodeTrack(ch, uri)
      BY <1>2 DEF Encode
    <2> QED
      BY <1>2, <2>1, TrackAppended DEF Adds
  <1> QED
    BY <1>1, <1>2

\* The tags after k of them, if the decoder keeps them all.
TagsRead(ch, k) ==
  [key \in TagKeys |-> IF \E j \in 1 .. k : KeySeq(ch.tags)[j] = key THEN ch.tags[key] ELSE Absent]

KeepsTags(ch) ==
  \A key \in TagKeys : ch.tags[key] # Absent =>
     key \in Whitelisted /\ TagText[<<key, ch.tags[key]>>] = TagLine(key, ch.tags[key])

\* No tag looks like the beginning of a track.
QuietTags(ch) ==
  \A key \in TagKeys : ch.tags[key] # Absent =>
     TagText[<<key, ch.tags[key]>>].kind \notin {"extinf", "badExtinf"}

LEMMA TagsAreRead ==
  ASSUME NEW ch \in Channel
  PROVE  /\ TagsRead(ch, 0) = NoTags
         /\ TagsRead(ch, Len(KeySeq(ch.tags))) = ch.tags
         /\ \A k \in 1 .. Len(KeySeq(ch.tags)) :
               LET key == KeySeq(ch.tags)[k] IN
               TagsRead(ch, k) = [TagsRead(ch, k - 1) EXCEPT ![key] = ch.tags[key]]
  <1> DEFINE keys == KeySeq(ch.tags)
             n == Len(keys)
  <1>1. ch.tags \in Fields(TagKeys) /\ Absent \in Maybe(Values)
    BY DEF Channel, Maybe
  <1>2. /\ n \in Nat /\ \A k \in 1 .. n : keys[k] \in TagKeys
        /\ \A key \in TagKeys : ch.tags[key] # Absent => \E j \in 1 .. n : keys[j] = key
    BY <1>1, KeySeqType
  <1>3. \A k : TagsRead(ch, k) =
          [x \in TagKeys |-> IF \E j \in 1 .. k : keys[j] = x THEN ch.tags[x] ELSE Absent]
    BY DEF TagsRead
  <1> HIDE DEF keys, n
  <1>4. TagsRead(ch, 0) = NoTags
    <2>1. \A j \in 1 .. 0 : FALSE
      OBVIOUS
    <2> QED
      BY <1>3, <2>1 DEF NoTags
  <1>5. TagsRead(ch, n) = ch.tags
    <2>1. \A key \in TagKeys : TagsRead(ch, n)[key] = ch.tags[key]
      BY <1>2, <1>3
    <2>2. ch.tags \in [TagKeys -> Maybe(Values)]
      BY <1>1 DEF Fields
    <2>3. TagsRead(ch, n) = [key \in TagKeys |-> TagsRead(ch, n)[key]]
      BY <1>3
    <2> QED
      BY <2>1, <2>2, <2>3
  <1>6. ASSUME NEW k \in 1 .. n
        PROVE  TagsRead(ch, k) = [TagsRead(ch, k - 1) EXCEPT ![keys[k]] = ch.tags[keys[k]]]
    <2>1. \A j \in 1 .. k : j \in 1 .. k - 1 \/ j = k
      BY <1>2
    <2>2. k \in 1 .. k /\ \A j \in 1 .. k - 1 : j \in 1 .. k
      BY <1>2
    <2>3. \A x \in TagKeys : x # keys[k] =>
            ((\E j \in 1 .. k : keys[j] = x) <=> (\E j \in 1 .. k - 1 : keys[j] = x))
      BY <2>1, <2>2
    <2>4. \E j \in 1 .. k : keys[j] = keys[k]
      BY <2>2
    <2> QED
      BY <1>2, <1>3, <2>3, <2>4
  <1> QED
    BY <1>4, <1>5, <1>6 DEF keys, n

\* What becomes of a track when a tag or the URI is set.
LEMMA TagSet ==
  ASSUME NEW t \in Track, NEW key \in TagKeys, NEW v \in Values
  PROVE  LET c == [t EXCEPT !.tags[key] = v] IN
         /\ c \in Track /\ c.attrs = t.attrs /\ c.name = t.name
         /\ c.tags = [t.tags EXCEPT ![key] = v]
  BY DEF Track, Fields, Maybe

LEMMA URISet ==
  ASSUME NEW t \in Track, NEW uri \in URI
  PROVE  LET c == [t EXCEPT !.uri = uri] IN
         /\ c \in Track /\ c.attrs = t.attrs /\ c.name = t.name
         /\ c.tags = t.tags /\ c.uri = uri /\ c.kind = "track"
  BY DEF Track

\* A decoder within the track of ch.
InTrack(d, ch) ==
  LET line == InfoLine(ch.attrs, ch.name) IN
  /\ d.header /\ d.items = <<>> /\ d.track \in Track
  /\ d.track.attrs = line.attrs /\ d.track.name = parseExtInfLine(line).name

\* A tag leaves it there.
LEMMA TagLineRead ==
  ASSUME NEW ch \in Channel, QuietTags(ch), NEW d \in DecoderState, InTrack(d, ch),
         NEW key \in TagKeys, ch.tags[key] \in Values
  PROVE  LET c == Decode(d, TagText[<<key, ch.tags[key]>>]) IN
         /\ InTrack(c, ch)
         /\ KeepsTags(ch) => c.track.tags = [d.track.tags EXCEPT ![key] = ch.tags[key]]
  <1> DEFINE v == ch.tags[key]
             line == TagText[<<key, v>>]
             c == Decode(d, line)
             t == d.track
  <1>1. v \in Values /\ v # Absent
    BY ValuesAssumption
  <1>2. line \in Line /\ line.kind \notin {"uri", "extinf", "badExtinf"}
    BY <1>1, LinesAssumption DEF QuietTags
  <1>3. d.header /\ d.items = <<>> /\ t \in Track /\ t # Absent
    BY TrackAssumption DEF InTrack
  <1>4. KeepsTags(ch) => key \in Whitelisted /\ line = TagLine(key, v)
    BY <1>1 DEF KeepsTags
  <1> HIDE DEF line
  <1>5. c.header /\ c.track = TrackAfter(t, line) /\ c.items = d.items \o Yields(t, line)
    BY <1>2, <1>3, DecodeIs
  <1>6. Yields(t, line) = <<>>
    BY <1>2 DEF Yields
  <1>7. <<>> \o <<>> = <<>>
    OBVIOUS
  <1>8. c.items = <<>>
    BY <1>3, <1>5, <1>6, <1>7
  <1>9. CASE line.kind = "tag" /\ line.key \in Whitelisted
    <2>1. line.key \in TagKeys /\ line.value \in Values
      BY <1>2, <1>9 DEF Line
    <2>2. c.track = [t EXCEPT !.tags[line.key] = line.value]
      BY <1>3, <1>5, <1>9 DEF TrackAfter
    <2> HIDE DEF c, t
    <2>3. /\ c.track \in Track /\ c.track.attrs = t.attrs /\ c.track.name = t.name
          /\ c.track.tags = [t.tags EXCEPT ![line.key] = line.value]
      BY <1>3, <2>1, <2>2, TagSet
    <2>4. KeepsTags(ch) => c.track.tags = [t.tags EXCEPT ![key] = v]
      <3>1. TagLine(key, v).key = key /\ TagLine(key, v).value = v
        BY DEF TagLine
      <3> QED
        BY <1>4, <2>3, <3>1
    <2>5. InTrack(c, ch)
      BY <1>5, <1>8, <2>3 DEF InTrack, t
    <2> QED
      BY <2>4, <2>5 DEF c, t, line
  <1>10. CASE ~(line.kind = "tag" /\ line.key \in Whitelisted)
    <2>1. c.track = t
      BY <1>2, <1>5, <1>10 DEF TrackAfter
    <2>2. ~KeepsTags(ch)
      <3>1. TagLine(key, v).key = key /\ TagLine(key, v).kind = "tag"
        BY DEF TagLine
      <3> QED
        BY <1>4, <1>10, <3>1
    <2> HIDE DEF c
    <2>3. InTrack(c, ch)
      BY <1>5, <1>8, <2>1 DEF InTrack
    <2> QED
      BY <2>2, <2>3 DEF c, line
  <1> QED
    BY <1>9, <1>10

\* Its name and attributes are found if neither quotes nor commas hide them.
Whole(ch) == Found[<<ch.attrs, ch.name>>] = ch.attrs
Named(ch) == IF ch.name = "" THEN Len(AttrParts[ch.attrs]) = 1 ELSE Parts[ch.name] = <<ch.name>>

LEMMA NameIsRead ==
  ASSUME NEW ch \in Channel
  PROVE  LET line == InfoLine(ch.attrs, ch.name) IN
         /\ Whole(ch) => line.attrs = ch.attrs
         /\ Whole(ch) /\ Named(ch) => parseExtInfLine(line).name = ch.name
  <1> DEFINE line == InfoLine(ch.attrs, ch.name)
             before == AttrParts[ch.attrs]
             parts == IF ch.name = "" THEN before ELSE before \o Parts[ch.name]
  <1>1. ch.name \in Values /\ ch.attrs \in Fields(AttrKeys)
    BY DEF Channel
  <1>2. Parts[ch.name] \in Seq(Values) /\ before \in Seq(Values) /\ Len(before) \in Nat \ {0}
    <2>1. before \in Seq(Values) /\ before # <<>>
      BY <1>1, PartsAssumption
    <2> HIDE DEF before
    <2>2. Len(before) \in Nat \ {0}
      BY <2>1, LenProperties, EmptySeq
    <2> QED
      BY <1>1, <2>1, <2>2, PartsAssumption
  <1>3. line.attrs = Found[<<ch.attrs, ch.name>>] /\ line.parts = parts
    BY DEF InfoLine, ExtInfLine
  <1> HIDE DEF line, parts, before
  <1>4. parseExtInfLine(line).name = CASE Len(parts) > 1 -> parts[Len(parts)]
                                       [] Len(parts) = 1 /\ line.attrs = NoAttrs -> parts[1]
                                       [] OTHER -> ""
    BY <1>3 DEF parseExtInfLine
  <1>5. ASSUME Whole(ch), Named(ch)
        PROVE  parseExtInfLine(line).name = ch.name
    <2>1. CASE ch.name = ""
      <3>1. parts = before /\ Len(parts) = 1
        BY <1>5, <2>1 DEF parts, Named, before
      <3>2. line.attrs = NoAttrs => parts[1] = ""
        <4>1. line.attrs = ch.attrs
          BY <1>3, <1>5 DEF Whole
        <4>2. AttrParts[NoAttrs] = <<"">>
          BY PartsAssumption
        <4>3. <<"">>[1] = ""
          OBVIOUS
        <4> QED
          BY <3>1, <4>1, <4>2, <4>3 DEF before
      <3>3. CASE line.attrs = NoAttrs
        <4>1. ~(Len(parts) > 1)
          BY <3>1
        <4>2. parseExtInfLine(line).name = parts[1]
          BY <1>4, <3>1, <3>3, <4>1
        <4> QED
          BY <2>1, <3>2, <3>3, <4>2, Zenon
      <3>4. CASE line.attrs # NoAttrs
        <4>1. ~(Len(parts) > 1)
          BY <3>1
        <4> QED
          BY <1>4, <2>1, <3>1, <3>4, <4>1
      <3> QED
        BY <3>3, <3>4
    <2>2. CASE ch.name # ""
      <3>1. Parts[ch.name] = <<ch.name>>
        BY <1>5, <2>2 DEF Named
      <3>2. Len(Parts[ch.name]) = 1 /\ Parts[ch.name][1] = ch.name
        BY <3>1
      <3>3. parts = before \o Parts[ch.name]
        BY <2>2 DEF parts
      <3>4. /\ Len(parts) = Len(before) + Len(Parts[ch.name])
            /\ \A k \in 1 .. Len(before) + Len(Parts[ch.name]) :
                  parts[k] = IF k <= Len(before) THEN before[k] ELSE Parts[ch.name][k - Len(before)]
        BY <1>2, <3>3, ConcatProperties
      <3> DEFINE n == Len(before)
      <3>5. n \in Nat \ {0} /\ Len(parts) = n + 1
            /\ parts[n + 1] = IF n + 1 <= n THEN before[n + 1] ELSE Parts[ch.name][n + 1 - n]
        <4>1. n + 1 \in 1 .. n + 1
          BY <1>2
        <4> QED
          BY <1>2, <3>2, <3>4, <4>1
      <3> HIDE DEF n
      <3>6. ~(n + 1 <= n) /\ n + 1 - n = 1 /\ n + 1 > 1
        BY <3>5
      <3>7. parts[Len(parts)] = ch.name /\ Len(parts) > 1
        BY <3>2, <3>5, <3>6
      <3> QED
        BY <1>4, <3>7
    <2> QED
      BY <2>1, <2>2
  <1> QED
    BY <1>3, <1>5 DEF Whole, line

\* What is read of a legible channel alone.
LEMMA LegibleRead ==
  ASSUME NEW ch \in Channel, NEW uri \in URI, Alone[uri] = URILine(uri), QuietTags(ch)
  PROVE  LET alone == Decoded(<<HeaderLine>> \o encodeTrack(ch, uri))
             item == alone[1] IN
         /\ Len(alone) = 1 /\ item.kind = "track" /\ item.uri = uri
         /\ Whole(ch) => item.attrs = ch.attrs
         /\ Whole(ch) /\ Named(ch) => item.name = ch.name
         /\ KeepsTags(ch) => item.tags = ch.tags
  <1> DEFINE e == encodeTrack(ch, uri)
             keys == KeySeq(ch.tags)
             n == Len(keys)
             first == InfoLine(ch.attrs, ch.name)
             h == <<HeaderLine>>
             c == Between(<<>>)
  <1>1. uri \in Values /\ uri \notin BadURLs
    BY DEF URI
  <1>2. /\ n \in Nat /\ e \in Seq(Line) /\ Len(e) = n + 2
        /\ e[1] = first /\ e[n + 2] = Alone[uri]
        /\ \A k \in 1 .. n : e[k + 1] = TagText[<<keys[k], ch.tags[keys[k]]>>]
    BY <1>1, TrackLines
  <1>3. \A k \in 1 .. n : keys[k] \in TagKeys /\ ch.tags[keys[k]] \in Values
    <2>1. ch.tags \in Fields(TagKeys)
      BY DEF Channel
    <2> QED
      BY <2>1, KeySeqType
  <1>4. /\ first \in Line /\ first.kind = "extinf" /\ parseExtInfLine(first) \in Track
        /\ parseExtInfLine(first).attrs = first.attrs /\ parseExtInfLine(first).tags = NoTags
    <2>1. first \in Line /\ first \in [kind : {"extinf"}, attrs : Fields(AttrKeys), parts : Seq(Values)]
      BY InfoLineType
    <2> HIDE DEF first
    <2>2. parseExtInfLine(first) \in Track
      BY <2>1, ParsedType
    <2> QED
      BY <2>1, <2>2 DEF parseExtInfLine
  <1>5. h \in Seq(Line) /\ Reads(h, c) /\ c \in DecoderState /\ c.header /\ c.items = <<>>
    BY HeaderRead
  <1> HIDE DEF e, h, c, keys, n
  <1>6. PICK r : DecoderRun(c, e, r)
    BY <1>2, <1>5, RunExists
  <1>7. /\ r \in [0 .. n + 2 -> DecoderState] /\ r[0] = c
        /\ \A k \in 1 .. n + 2 : r[k] = Decode(r[k - 1], e[k])
    BY <1>2, <1>6 DEF DecoderRun
  <1> DEFINE good(k) == /\ InTrack(r[k + 1], ch)
                        /\ KeepsTags(ch) => r[k + 1].track.tags = TagsRead(ch, k)
             f == [k \in 0 .. n |-> IF good(k) THEN "good" ELSE "other"]
             S == {"good"}
  <1>8. \A k \in 0 .. n : f[k] \in S <=> good(k)
    OBVIOUS
  <1>9. good(0)
    <2>1. 1 \in 1 .. n + 2 /\ 1 - 1 = 0 /\ 0 + 1 = 1
      BY <1>2
    <2>2. r[1] = Decode(c, first)
      BY <1>2, <1>7, <2>1
    <2>3. /\ r[1].header /\ r[1].track = TrackAfter(c.track, first)
          /\ r[1].items = c.items \o Yields(c.track, first)
      <3> HIDE DEF first
      <3> QED
        BY <1>4, <1>5, <2>2, DecodeIs
    <2>4. TrackAfter(c.track, first) = parseExtInfLine(first) /\ Yields(c.track, first) = <<>>
      <3> HIDE DEF first
      <3> QED
        BY <1>4 DEF TrackAfter, Yields
    <2>5. <<>> \o <<>> = <<>>
      OBVIOUS
    <2>6. r[1].items = <<>>
      BY <1>5, <2>3, <2>4, <2>5
    <2>7. InTrack(r[1], ch)
      BY <1>4, <2>3, <2>4, <2>6 DEF InTrack
    <2>8. r[1].track.tags = TagsRead(ch, 0)
      BY <1>4, <2>3, <2>4, TagsAreRead
    <2> QED
      BY <2>1, <2>7, <2>8
  <1> HIDE DEF f, S, good
  <1>10. ASSUME NEW k \in 1 .. n, good(k - 1)
         PROVE  good(k)
    <2>1. /\ k + 1 \in 1 .. n + 2 /\ k + 1 - 1 = k /\ k - 1 + 1 = k /\ k \in 0 .. n + 2
      BY <1>2
    <2> DEFINE d == r[k]
               key == keys[k]
    <2>2. d \in DecoderState /\ key \in TagKeys /\ ch.tags[key] \in Values
      BY <1>3, <1>7, <2>1
    <2>3. r[k + 1] = Decode(d, TagText[<<key, ch.tags[key]>>])
      <3>1. r[k + 1] = Decode(r[k + 1 - 1], e[k + 1])
        BY <1>7, <2>1
      <3>2. e[k + 1] = TagText[<<key, ch.tags[key]>>]
        BY <1>2
      <3> QED
        BY <2>1, <3>1, <3>2
    <2>4. InTrack(d, ch) /\ (KeepsTags(ch) => d.track.tags = TagsRead(ch, k - 1))
      BY <1>10, <2>1 DEF good
    <2> HIDE DEF d
    <2>5. TagsRead(ch, k) = [TagsRead(ch, k - 1) EXCEPT ![key] = ch.tags[key]]
      BY TagsAreRead DEF n, keys
    <2> HIDE DEF key
    <2>6. /\ InTrack(r[k + 1], ch)
          /\ KeepsTags(ch) => r[k + 1].track.tags = [d.track.tags EXCEPT ![key] = ch.tags[key]]
      BY <2>2, <2>3, <2>4, TagLineRead
    <2>7. KeepsTags(ch) => r[k + 1].track.tags = TagsRead(ch, k)
      BY <2>4, <2>5, <2>6
    <2> QED
      BY <2>6, <2>7 DEF good
  <1>11. good(n)
    <2>1. 0 \in 0 .. n /\ n \in 0 .. n /\ \A k \in 1 .. n : k \in 0 .. n /\ k - 1 \in 0 .. n
      BY <1>2
    <2>2. f[0] \in S
      BY <1>8, <1>9, <2>1
    <2>3. \A k \in 1 .. n : f[k - 1] \in S => f[k] \in S
      BY <1>8, <1>10, <2>1
    <2>4. \A k \in 0 .. n : f[k] \in S
      BY <1>2, <2>2, <2>3, Kept
    <2> QED
      BY <1>8, <2>1, <2>4
  <1> DEFINE d == r[n + 1]
             t == d.track
             line == URILine(uri)
             found == [t EXCEPT !.uri = uri]
  <1>12. n + 2 \in 1 .. n + 2 /\ n + 2 - 1 = n + 1 /\ n + 1 \in 0 .. n + 2
    BY <1>2
  <1>13. d \in DecoderState /\ r[n + 2] = Decode(d, line)
    BY <1>2, <1>7, <1>12
  <1>14. InTrack(d, ch) /\ (KeepsTags(ch) => t.tags = TagsRead(ch, n))
    BY <1>11 DEF good
  <1>15. line \in Line /\ line.kind = "uri" /\ line.value = uri
    <2>1. Alone[uri] \in Line
      BY <1>1, LinesAssumption
    <2> QED
      BY <2>1 DEF URILine
  <1> HIDE DEF d, line
  <1>16. d.header /\ d.items = <<>> /\ t \in Track /\ t # Absent
    BY <1>14, TrackAssumption DEF InTrack
  <1>17. r[n + 2].items = <<>> \o Yields(t, line)
    BY <1>13, <1>15, <1>16, DecodeIs
  <1>18. Yields(t, line) = <<found>>
    BY <1>1, <1>15, <1>16 DEF Yields
  <1> HIDE DEF t
  <1>19. /\ found \in Track /\ found.attrs = t.attrs /\ found.name = t.name
         /\ found.tags = t.tags /\ found.uri = uri /\ found.kind = "track"
    BY <1>16, URISet
  <1> HIDE DEF found
  <1>20. r[n + 2].items = <<found>>
    <2>1. <<>> \o <<found>> = <<found>>
      <3>1. <<found>> \in Seq(Track)
        BY <1>19
      <3> QED
        BY <3>1, ConcatEmptySeq
    <2> QED
      BY <1>17, <1>18, <2>1
  <1>21. Decoded(h \o e) = <<found>>
    <2>1. h \o e \in Seq(Line) /\ Reads(h \o e, r[Len(e)])
      BY <1>2, <1>5, <1>6, ReadsAllOn
    <2>2. Decoded(h \o e) = r[n + 2].items
      BY <1>2, <2>1, DecodedIs
    <2> QED
      BY <1>20, <2>2
  <1>22. found.attrs = first.attrs /\ found.name = parseExtInfLine(first).name
    BY <1>14, <1>19 DEF InTrack, t
  <1>23. KeepsTags(ch) => found.tags = ch.tags
    BY <1>14, <1>19, TagsAreRead DEF n, keys
  <1>24. /\ Whole(ch) => found.attrs = ch.attrs
         /\ Whole(ch) /\ Named(ch) => found.name = ch.name
    BY <1>22, NameIsRead
  <1>25. Len(<<found>>) = 1 /\ <<found>>[1] = found
    OBVIOUS
  <1> QED
    BY <1>19, <1>21, <1>23, <1>24, <1>25 DEF h, e

-----------------------------------------------------------------------------
(* Sequences one after the other, and the beginnings of sequences. *)

LEMMA JoinedIs ==
  ASSUME NEW S, NEW seqs \in Seq(Seq(S))
  PROVE  LET j == Joined(seqs) IN
         /\ j \in [0 .. Len(seqs) -> Seq(S)] /\ j[0] = <<>>
         /\ \A k \in 1 .. Len(seqs) : j[k] = j[k - 1] \o seqs[k]
  <1> DEFINE n == Len(seqs)
             T == Seq(S)
  <1>1. n \in Nat /\ \A k \in 1 .. n : seqs[k] \in T
    BY LenProperties, ElementOfSeq
  <1>2. <<>> \in T
    OBVIOUS
  <1>3. PICK F \in [T \X (1 .. n) -> T] : \A x \in T, k \in 1 .. n : F[<<x, k>>] = x \o seqs[k]
    <2> DEFINE F == [p \in T \X (1 .. n) |-> p[1] \o seqs[p[2]]]
    <2>1. \A x \in T, k \in 1 .. n : x \o seqs[k] \in T
      BY <1>1, ConcatProperties
    <2> HIDE DEF T, n
    <2>2. F \in [T \X (1 .. n) -> T] /\ \A x \in T, k \in 1 .. n : F[<<x, k>>] = x \o seqs[k]
      BY <2>1
    <2> QED
      BY <2>2
  <1> HIDE DEF T, n
  <1>4. PICK r \in [0 .. n -> T] : r[0] = <<>> /\ \A k \in 1 .. n : r[k] = F[<<r[k - 1], k>>]
    <2>1. HasIteration(T, <<>>, n, F)
      BY <1>1, <1>2, Iterated
    <2> QED
      BY <2>1 DEF HasIteration
  <1>5. ASSUME NEW k \in 1 .. n
        PROVE  r[k] = r[k - 1] \o seqs[k]
    <2>1. k - 1 \in 0 .. n
      BY <1>1
    <2>2. r[k - 1] \in T
      BY <1>4, <2>1
    <2> QED
      BY <1>3, <1>4, <2>2
  <1>6. r = [k \in 0 .. n |-> IF k = 0 THEN <<>> ELSE r[k - 1] \o seqs[k]]
    <2>1. \A k \in 0 .. n : k # 0 => k \in 1 .. n
      BY <1>1
    <2>2. \A k \in 0 .. n : r[k] = IF k = 0 THEN <<>> ELSE r[k - 1] \o seqs[k]
      BY <1>4, <1>5, <2>1
    <2> QED
      BY <1>4, <2>2
  <1>7. PICK q : /\ q = [k \in 0 .. n |-> IF k = 0 THEN <<>> ELSE q[k - 1] \o seqs[k]]
                 /\ Joined(seqs) = q
    BY <1>6 DEF Joined, n
  <1>8. 0 \in 0 .. n /\ \A k \in 1 .. n : k \in 0 .. n /\ k - 1 \in 0 .. n /\ k # 0
    BY <1>1
  <1>9. q[0] = <<>> /\ \A k \in 1 .. n : q[k] = q[k - 1] \o seqs[k]
    BY <1>7, <1>8
  <1>10. q \in [0 .. n -> T]
    <2>1. \A x \in T, y \in T : x \o y \in T
      BY ConcatProperties DEF T
    <2>2. \A k \in 1 .. n : q[k - 1] \in T => q[k] \in T
      BY <1>1, <1>9, <2>1
    <2>3. \A k \in 0 .. n : q[k] \in T
      BY <1>1, <1>2, <1>9, <2>2, Kept
    <2>4. q = [k \in 0 .. n |-> q[k]]
      BY <1>7
    <2> QED
      BY <2>3, <2>4
  <1> QED
    BY <1>7, <1>9, <1>10 DEF n, T

LEMMA BeginsItself ==
  ASSUME NEW S, NEW a \in Seq(S)
  PROVE  Begins(a, a)
  <1>1. Len(a) \in Nat
    BY LenProperties
  <1> QED
    BY <1>1 DEF Begins

LEMMA BeginsBegins ==
  ASSUME NEW S, NEW a \in Seq(S), NEW b \in Seq(S), NEW c \in Seq(S), Begins(a, b), Begins(b, c)
  PROVE  Begins(a, c)
  <1>1. Len(a) \in Nat /\ Len(b) \in Nat /\ Len(c) \in Nat
    BY LenProperties
  <1>2. \A k \in 1 .. Len(a) : k \in 1 .. Len(b)
    BY <1>1 DEF Begins
  <1> QED
    BY <1>1, <1>2 DEF Begins

LEMMA JoinedBegins ==
  ASSUME NEW S, NEW n \in Nat, NEW j \in [0 .. n -> Seq(S)], NEW seqs \in Seq(Seq(S)),
         n = Len(seqs), \A k \in 1 .. n : j[k] = j[k - 1] \o seqs[k], NEW m \in 0 .. n
  PROVE  Begins(j[m], j[n])
  <1> DEFINE f == [k \in 0 .. n |-> IF k < m \/ Begins(j[m], j[k]) THEN "begins" ELSE "other"]
             B == {"begins"}
  <1>1. \A k \in 0 .. n : f[k] \in B <=> k < m \/ Begins(j[m], j[k])
    OBVIOUS
  <1>2. /\ m \in Nat /\ 0 \in 0 .. n /\ n \in 0 .. n /\ ~(n < m) /\ (0 < m \/ 0 = m)
        /\ \A k \in 1 .. n : k \in 0 .. n /\ k - 1 \in 0 .. n /\ (k < m \/ k = m \/ ~(k - 1 < m))
    OBVIOUS
  <1>3. \A k \in 1 .. n : seqs[k] \in Seq(S)
    BY ElementOfSeq
  <1>4. \A k \in 0 .. n : j[k] \in Seq(S)
    OBVIOUS
  <1> HIDE DEF f, B
  <1>5. Begins(j[m], j[m])
    BY <1>4, BeginsItself
  <1>6. f[0] \in B
    BY <1>1, <1>2, <1>5
  <1>7. ASSUME NEW k \in 1 .. n, f[k - 1] \in B
        PROVE  f[k] \in B
    <2>1. CASE ~(k - 1 < m)
      <3>1. Begins(j[m], j[k - 1])
        BY <1>1, <1>2, <1>7, <2>1
      <3>2. Begins(j[m], j[k - 1] \o seqs[k])
        BY <1>2, <1>3, <1>4, <3>1, BeginsOn
      <3> QED
        BY <1>1, <1>2, <3>2
    <2> QED
      BY <1>1, <1>2, <1>5, <2>1
  <1>8. \A k \in 0 .. n : f[k] \in B
    BY <1>6, <1>7, Kept
  <1> QED
    BY <1>1, <1>2, <1>8

\* A sequence that begins another one, and at most one element more.
LEMMA FrontBegins ==
  ASSUME NEW S, NEW a \in Seq(S), NEW b \in Seq(S), NEW new \in Seq(S),
         Begins(a, b), Len(new) <= 1
  PROVE  LET read == a \o new IN read = <<>> \/ IsPrefix(Front(read), b)
  <1> DEFINE read == a \o new
             n == Len(read)
             front == SubSeq(read, 1, n - 1)
  <1>1. /\ read \in Seq(S) /\ n = Len(a) + Len(new)
        /\ \A k \in 1 .. Len(a) + Len(new) : read[k] = IF k <= Len(a) THEN a[k] ELSE new[k - Len(a)]
    BY ConcatProperties
  <1>2. Len(a) \in Nat /\ Len(b) \in Nat /\ Len(new) \in Nat
    BY LenProperties
  <1> HIDE DEF read
  <1>3. CASE n = 0
    BY <1>1, <1>3, EmptySeq DEF read
  <1>4. CASE n # 0
    <2>1. n - 1 \in Nat /\ n - 1 <= Len(a) /\ n - 1 <= Len(b) /\ n - 1 <= n
      BY <1>1, <1>2, <1>4 DEF Begins
    <2>2. \A k \in 1 .. n - 1 : /\ k \in 1 .. Len(a) + Len(new) /\ k <= Len(a) /\ k \in 1 .. Len(a)
                                /\ k \in 1 .. Len(b) /\ k \in 1 .. n /\ 1 + k - 1 = k
      BY <1>1, <1>2, <2>1
    <2>3. \A k \in 1 .. n - 1 : read[k] = b[k]
      BY <1>1, <2>2 DEF Begins
    <2>4. (\A k \in 1 .. n : read[k] \in S) /\ \A k \in 1 .. Len(b) : b[k] \in S
      BY <1>1, ElementOfSeq
    <2>5. \A k \in 1 .. n - 1 : read[k] \in S /\ b[k] \in S
      BY <2>2, <2>4
    <2> HIDE DEF n
    <2>6. /\ front \in Seq(S) /\ Len(front) = n - 1
          /\ \A k \in 1 .. n - 1 : front[k] = read[k]
      <3>1. /\ SubSeq(read, 1, n - 1) \in Seq(S)
            /\ Len(SubSeq(read, 1, n - 1)) = IF 1 <= n - 1 THEN n - 1 - 1 + 1 ELSE 0
            /\ \A i \in 1 .. n - 1 - 1 + 1 : SubSeq(read, 1, n - 1)[i] = read[1 + i - 1]
        BY <2>1, <2>5, SubSeqProperties
      <3>2. n - 1 - 1 + 1 = n - 1 /\ (IF 1 <= n - 1 THEN n - 1 - 1 + 1 ELSE 0) = n - 1
        BY <2>1
      <3> QED
        BY <2>2, <3>1, <3>2
    <2> DEFINE start == SubSeq(b, 1, n - 1)
    <2>7. /\ start \in Seq(S) /\ Len(start) = n - 1
          /\ \A k \in 1 .. n - 1 : start[k] = b[k]
      <3>1. /\ SubSeq(b, 1, n - 1) \in Seq(S)
            /\ Len(SubSeq(b, 1, n - 1)) = IF 1 <= n - 1 THEN n - 1 - 1 + 1 ELSE 0
            /\ \A i \in 1 .. n - 1 - 1 + 1 : SubSeq(b, 1, n - 1)[i] = b[1 + i - 1]
        BY <2>1, <2>5, SubSeqProperties
      <3>2. n - 1 - 1 + 1 = n - 1 /\ (IF 1 <= n - 1 THEN n - 1 - 1 + 1 ELSE 0) = n - 1
        BY <2>1
      <3> QED
        BY <2>2, <3>1, <3>2
    <2> HIDE DEF front, start
    <2>8. front = start
      BY <2>3, <2>6, <2>7, SeqEqual
    <2>9. SubSeq(front, 1, Len(front)) = front
      BY <2>6, SubSeqFull
    <2>10. SubSeq(b, 1, Len(front)) = start
      BY <2>6 DEF start
    <2>11. Front(read) = front
      BY DEF Front, front, n
    <2>12. IsPrefix(front, b)
      BY <2>1, <2>6, <2>8, <2>9, <2>10 DEF IsPrefix
    <2> QED
      BY <2>11, <2>12 DEF read
  <1> QED
    BY <1>3, <1>4

-----------------------------------------------------------------------------
(* What is written can be read, at all times. *)

\* What a decoder makes of the channels of the result, each by itself, and of the
\* first n of them.
EachAlone == [k \in DOMAIN ResultSeq |-> ReadAlone(ResultSeq[k])]
AloneUpTo(n) == Joined(EachAlone)[n]

\* The channels that are unwritten are the last ones of the result.
LastOnes ==
  \A k \in 1 .. Len(unwritten) :
     unwritten[k] = ResultSeq[Len(ResultSeq) - Len(unwritten) + k]

\* The lines of out are read as the channels that are not unwritten are by themselves.
Told ==
  /\ link = Links /\ out \in Seq(Line) /\ unwritten \in Seq(Results) /\ LastOnes
  /\ \E d \in DecoderState, n \in 0 .. Len(ResultSeq) :
        /\ Reads(out, d) /\ (out # <<>> => d.header)
        /\ n + Len(unwritten) = Len(ResultSeq)
        /\ d.items = AloneUpTo(n)

\* They are read as the beginning of that.
Broken ==
  /\ link = Links /\ out \in Seq(Line)
  /\ \E d \in DecoderState : Reads(out, d) /\ Begins(d.items, AloneUpTo(Len(ResultSeq)))

WriteInv ==
  /\ phase \notin {"write", "returned"} => out = <<>>
  /\ phase = "write" => Told
  /\ phase = "returned" => \/ result = "error" /\ out = <<>>
                           \/ Broken /\ (result = "ok" => Told /\ unwritten = <<>>)

LEMMA StoreType ==
  ASSUME PlaylistInv
  PROVE  /\ MergeInv /\ channels \in Seq(Channel)
         /\ ResultSeq \in Seq(Results) /\ Len(ResultSeq) \in Nat
         /\ \A k \in 1 .. Len(ResultSeq) : ResultSeq[k] \in Results
  <1>1. MergeInv /\ channels \in Seq(Channel)
    BY DEF PlaylistInv, StoreKept, MergeInv, MergeTypeOK
  <1> QED
    BY <1>1, ResultSeqType

\* A channel of the result has a URI, its own or that of a link.
LEMMA WrittenURIType ==
  ASSUME MergeInv, link = Links, NEW i \in Results
  PROVE  channels[i] \in Channel /\ WrittenURI(i) \in URI
  <1>1. i \in DOMAIN channelStreams /\ i \in 1 .. Len(channels)
    BY DEF Results
  <1>2. channels[i] \in Channel /\ channels[i].uri \in URI
    BY <1>1, ChannelType DEF MergeInv, Channel
  <1>3. CASE i \in DOMAIN link
    <2>1. channelStreams[i] # <<>> /\ channelStreams[i][1] = i
      BY <1>1 DEF MergeInv, BestSourceFirst
    <2>2. 1 \in DOMAIN channelStreams[i]
      <3>1. /\ channelStreams[i] \in Seq(1 .. at - 1) /\ Len(channelStreams[i]) \in Nat
            /\ DOMAIN channelStreams[i] = 1 .. Len(channelStreams[i])
        BY <1>1, SourcesMet
      <3>2. Len(channelStreams[i]) # 0
        BY <2>1, <3>1, EmptySeq
      <3> QED
        BY <3>1, <3>2
    <2>3. link[i] = [k \in DOMAIN channelStreams[i] |-> createStream(channelStreams[i][k])]
      BY <1>3 DEF Links
    <2>4. link[i][1] = createStream(i)
      BY <2>1, <2>2, <2>3
    <2>5. link[i][1].url = channels[i].uri
      BY <2>4 DEF createStream
    <2>6. channels[i].uri \in Values
      BY <1>2 DEF URI
    <2>7. StreamLink[channels[i].uri] \in URLs
      BY <2>6, StreamLinkAssumption
    <2>8. URLs \subseteq URI
      BY LinksAssumption DEF URI
    <2> QED
      BY <1>2, <1>3, <2>5, <2>7, <2>8 DEF WrittenURI
  <1>4. CASE i \notin DOMAIN link
    BY <1>2, <1>4 DEF WrittenURI
  <1> QED
    BY <1>3, <1>4

LEMMA AloneType ==
  ASSUME PlaylistInv, link = Links
  PROVE  /\ EachAlone \in Seq(Seq(Elements)) /\ Len(EachAlone) = Len(ResultSeq)
         /\ \A k \in 1 .. Len(ResultSeq) : EachAlone[k] = ReadAlone(ResultSeq[k])
         /\ Joined(EachAlone) \in [0 .. Len(ResultSeq) -> Seq(Elements)]
         /\ Joined(EachAlone)[0] = <<>>
         /\ \A k \in 1 .. Len(ResultSeq) :
               Joined(EachAlone)[k] = Joined(EachAlone)[k - 1] \o EachAlone[k]
  <1>1. ASSUME NEW i \in Results
        PROVE  ReadAlone(i) \in Seq(Elements)
    <2>1. channels[i] \in Channel /\ WrittenURI(i) \in Values
      BY StoreType, WrittenURIType DEF URI
    <2>2. <<HeaderLine>> \in Seq(Line) /\ Reads(<<HeaderLine>>, Between(<<>>)) /\ Between(<<>>).header
      BY HeaderRead
    <2>3. Decoded(<<HeaderLine>> \o encodeTrack(channels[i], WrittenURI(i))) \in Seq(Elements)
      BY <2>1, <2>2, TrackAppended DEF Adds
    <2> QED
      BY <2>3 DEF ReadAlone
  <1> DEFINE n == Len(ResultSeq)
             S == Seq(Elements)
  <1>2. n \in Nat /\ DOMAIN ResultSeq = 1 .. n /\ \A k \in 1 .. n : ResultSeq[k] \in Results
    BY StoreType, LenProperties
  <1>3. EachAlone = [k \in 1 .. n |-> ReadAlone(ResultSeq[k])]
    BY <1>2 DEF EachAlone
  <1> HIDE DEF n, S
  <1>4. EachAlone \in [1 .. n -> S] /\ \A k \in 1 .. n : EachAlone[k] = ReadAlone(ResultSeq[k])
    BY <1>1, <1>2, <1>3 DEF S
  <1>5. EachAlone \in Seq(S) /\ Len(EachAlone) = n
    BY <1>2, <1>4 DEF Seq
  <1> DEFINE each == EachAlone
  <1>6. each \in Seq(Seq(Elements))
    BY <1>5 DEF S
  <1> HIDE DEF each
  <1>7. /\ Joined(each) \in [0 .. Len(each) -> Seq(Elements)] /\ Joined(each)[0] = <<>>
        /\ \A k \in 1 .. Len(each) : Joined(each)[k] = Joined(each)[k - 1] \o each[k]
    BY <1>6, JoinedIs
  <1> QED
    BY <1>4, <1>5, <1>6, <1>7 DEF each, n

LEMMA NothingYet == PlaylistInv /\ link = Links => AloneUpTo(0) = <<>>
  BY AloneType DEF AloneUpTo

LEMMA AloneStays ==
  ASSUME UNCHANGED <<channels, channelStreams>>
  PROVE  /\ ResultSeq' = ResultSeq /\ Results' = Results /\ Links' = Links
         /\ link' = link => \A n : AloneUpTo(n)' = AloneUpTo(n)
  <1>1. Results' = Results
    BY DEF Results
  <1>2. ResultSeq' = ResultSeq
    BY <1>1 DEF ResultSeq
  <1>3. Links' = Links
    BY DEF Links, IsProxied, createStream
  <1>4. ASSUME link' = link
        PROVE  EachAlone' = EachAlone
    <2>1. \A i : ReadAlone(i)' = ReadAlone(i)
      BY <1>4 DEF ReadAlone, WrittenURI
    <2> QED
      BY <1>2, <2>1 DEF EachAlone
  <1> QED
    BY <1>1, <1>2, <1>3, <1>4 DEF AloneUpTo

LEMMA ToldStays ==
  ASSUME UNCHANGED <<channels, channelStreams, link, out, unwritten>>
  PROVE  (Told <=> Told') /\ (Broken <=> Broken')
  <1>1. /\ ResultSeq' = ResultSeq /\ Results' = Results /\ Links' = Links
        /\ \A n : AloneUpTo(n)' = AloneUpTo(n)
    BY AloneStays
  <1>2. \A d : Reads(out, d)' <=> Reads(out, d)
    BY DEF Reads
  <1>3. LastOnes <=> LastOnes'
    BY <1>1 DEF LastOnes
  <1> QED
    BY <1>1, <1>2, <1>3 DEF Told, Broken

LEMMA EarlyStep ==
  ASSUME WriteInv, phase \notin {"write", "returned"}, out' = out, phase' # "write",
         phase' = "returned" => result' = "error"
  PROVE  WriteInv'
  <1>1. out' = <<>>
    BY DEF WriteInv
  <1> QED
    BY <1>1 DEF WriteInv

LEMMA QuietWrite ==
  ASSUME WriteInv, UNCHANGED <<phase, result, out, unwritten, channels, channelStreams, link>>
  PROVE  WriteInv'
  BY ToldStays DEF WriteInv

LEMMA CollectStep ==
  ASSUME PlaylistInv, WriteInv, Collect
  PROVE  WriteInv'
  <1>1. /\ phase = "merge" /\ phase' = "write" /\ unwritten' = ResultSeq /\ out' = out
        /\ link' = Links /\ UNCHANGED <<channels, channelStreams>>
    BY DEF Collect, LinkChannels
  <1>2. ResultSeq' = ResultSeq /\ Results' = Results /\ Links' = Links
    BY <1>1, AloneStays
  <1>3. ResultSeq \in Seq(Results) /\ Len(ResultSeq) \in Nat
    BY StoreType
  <1>4. out' = <<>> /\ <<>> \in Seq(Line)
    BY <1>1 DEF WriteInv
  <1>5. Started \in DecoderState /\ Reads(<<>>, Started) /\ Started.items = <<>>
    BY ReadsNothing DEF Started, DecoderState, Maybe
  <1>6. PlaylistInv'
    BY DecodersStep, PhasesStep, StoreStep DEF PlaylistInv, Next, WriteTo
  <1>7. AloneUpTo(0)' = <<>>
    <2>1. (PlaylistInv /\ link = Links => AloneUpTo(0) = <<>>)'
      BY NothingYet, PTL
    <2> QED
      BY <1>1, <1>2, <1>6, <2>1
  <1>8. LastOnes'
    <2>1. \A k \in 1 .. Len(ResultSeq) : Len(ResultSeq) - Len(ResultSeq) + k = k
      BY <1>3
    <2> QED
      BY <1>1, <1>2, <2>1 DEF LastOnes
  <1>9. Told'
    <2>1. Reads(out, Started)'
      BY <1>4, <1>5 DEF Reads
    <2>2. 0 \in 0 .. Len(ResultSeq') /\ 0 + Len(unwritten') = Len(ResultSeq')
      BY <1>1, <1>2, <1>3
    <2> QED
      BY <1>1, <1>2, <1>3, <1>4, <1>5, <1>7, <1>8, <2>1, <2>2 DEF Told
  <1> QED
    BY <1>1, <1>9 DEF WriteInv

LEMMA NextIsLast ==
  ASSUME PlaylistInv, link = Links, unwritten \in Seq(Results), unwritten # <<>>, LastOnes,
         NEW n \in 0 .. Len(ResultSeq), n + Len(unwritten) = Len(ResultSeq)
  PROVE  /\ Head(unwritten) \in Results /\ n + 1 \in 1 .. Len(ResultSeq)
         /\ AloneUpTo(n + 1) = AloneUpTo(n) \o ReadAlone(Head(unwritten))
         /\ Tail(unwritten) \in Seq(Results) /\ n + 1 + Len(Tail(unwritten)) = Len(ResultSeq)
         /\ \A k \in 1 .. Len(Tail(unwritten)) :
               Tail(unwritten)[k] = ResultSeq[Len(ResultSeq) - Len(Tail(unwritten)) + k]
  <1> DEFINE i == Head(unwritten)
             rest == Tail(unwritten)
             l == Len(unwritten)
  <1>1. /\ i \in Results /\ i = unwritten[1] /\ l \in Nat \ {0}
        /\ rest \in Seq(Results) /\ Len(rest) = l - 1
        /\ \A k \in 1 .. l - 1 : rest[k] = unwritten[k + 1]
    BY HeadTailProperties, LenProperties, EmptySeq
  <1>2. n \in Nat /\ Len(ResultSeq) \in Nat
    BY StoreType
  <1> HIDE DEF i, rest
  <1>3. /\ 1 \in 1 .. l /\ Len(ResultSeq) - l + 1 = n + 1
        /\ n + 1 \in 1 .. Len(ResultSeq) /\ n + 1 - 1 = n /\ n + 1 + (l - 1) = Len(ResultSeq)
    <2> DEFINE N == Len(ResultSeq)
    <2>1. n + l = N /\ n \in Nat /\ N \in Nat /\ l \in Nat /\ l # 0
      BY <1>1, <1>2
    <2> HIDE DEF l, N
    <2>2. 1 \in 1 .. l /\ N - l + 1 = n + 1 /\ n + 1 \in 1 .. N /\ n + 1 - 1 = n /\ n + 1 + (l - 1) = N
      BY <2>1
    <2> QED
      BY <2>2 DEF N
  <1>4. unwritten[1] = ResultSeq[n + 1]
    BY <1>3 DEF LastOnes
  <1> HIDE DEF l
  <1>5. AloneUpTo(n + 1) = AloneUpTo(n) \o ReadAlone(i)
    <2>1. Joined(EachAlone)[n + 1] = Joined(EachAlone)[n] \o EachAlone[n + 1]
      <3>1. \A k \in 1 .. Len(ResultSeq) :
               Joined(EachAlone)[k] = Joined(EachAlone)[k - 1] \o EachAlone[k]
        BY AloneType
      <3> DEFINE k == n + 1
      <3>2. k \in 1 .. Len(ResultSeq) /\ k - 1 = n
        BY <1>3
      <3> HIDE DEF k
      <3>3. Joined(EachAlone)[k] = Joined(EachAlone)[n] \o EachAlone[k]
        BY <3>1, <3>2
      <3> QED
        BY <3>3 DEF k
    <2>2. EachAlone[n + 1] = ReadAlone(i)
      BY <1>1, <1>3, <1>4, AloneType
    <2> QED
      BY <2>1, <2>2 DEF AloneUpTo
  <1>6. \A k \in 1 .. Len(rest) : rest[k] = ResultSeq[Len(ResultSeq) - Len(rest) + k]
    <2>1. ASSUME NEW k \in 1 .. l - 1
          PROVE  rest[k] = ResultSeq[Len(ResultSeq) - (l - 1) + k]
      <3>1. k + 1 \in 1 .. l /\ Len(ResultSeq) - l + (k + 1) = Len(ResultSeq) - (l - 1) + k
        BY <1>1, <1>2
      <3> QED
        BY <1>1, <3>1 DEF LastOnes, l
    <2> QED
      BY <1>1, <2>1
  <1> QED
    BY <1>1, <1>3, <1>5, <1>6 DEF i, rest

\* The lines with the next channel are read as one channel more.
LEMMA NextIsRead ==
  ASSUME PlaylistInv, Told, unwritten # <<>>
  PROVE  LET all == Encode(out, channels[Head(unwritten)], WrittenURI(Head(unwritten))) IN
         \E q \in DecoderState, n \in 1 .. Len(ResultSeq) :
            /\ all \in Seq(Line) /\ Reads(all, q) /\ q.header
            /\ q.items = AloneUpTo(n) /\ n + Len(Tail(unwritten)) = Len(ResultSeq)
  <1> DEFINE i == Head(unwritten)
             ch == channels[i]
             uri == WrittenURI(i)
             all == Encode(out, ch, uri)
             alone == Decoded(<<HeaderLine>> \o encodeTrack(ch, uri))
  <1>1. link = Links /\ out \in Seq(Line) /\ unwritten \in Seq(Results) /\ LastOnes
    BY DEF Told
  <1>2. PICK d \in DecoderState, n \in 0 .. Len(ResultSeq) :
           /\ Reads(out, d) /\ (out # <<>> => d.header)
           /\ n + Len(unwritten) = Len(ResultSeq)
           /\ d.items = AloneUpTo(n)
    BY DEF Told
  <1>3. /\ i \in Results /\ n + 1 \in 1 .. Len(ResultSeq)
        /\ AloneUpTo(n + 1) = AloneUpTo(n) \o ReadAlone(i)
        /\ n + 1 + Len(Tail(unwritten)) = Len(ResultSeq)
    BY <1>1, <1>2, NextIsLast
  <1>4. ReadAlone(i) = alone
    BY DEF ReadAlone
  <1> HIDE DEF i
  <1>5. ch \in Channel /\ uri \in Values
    BY <1>1, <1>3, StoreType, WrittenURIType DEF URI
  <1> HIDE DEF ch, uri
  <1>6. /\ all \in Seq(Line)
        /\ \E q \in DecoderState : Reads(all, q) /\ q.header /\ q.items = d.items \o alone
    BY <1>1, <1>2, <1>5, EncodedIsRead
  <1> HIDE DEF all, alone
  <1>7. \E q \in DecoderState, m \in 1 .. Len(ResultSeq) :
            /\ all \in Seq(Line) /\ Reads(all, q) /\ q.header
            /\ q.items = AloneUpTo(m) /\ m + Len(Tail(unwritten)) = Len(ResultSeq)
    BY <1>2, <1>3, <1>4, <1>6
  <1> QED
    BY <1>7 DEF all, ch, uri, i

LEMMA WriteChannelStep ==
  ASSUME PlaylistInv, WriteInv, WriteChannel
  PROVE  WriteInv'
  <1> DEFINE all == Encode(out, channels[Head(unwritten)], WrittenURI(Head(unwritten)))
  <1>1. /\ phase = "write" /\ phase' = "write" /\ unwritten # <<>> /\ unwritten' = Tail(unwritten)
        /\ out' = all /\ UNCHANGED <<channels, channelStreams, link>>
    BY DEF WriteChannel, mergeVars, decoding
  <1> HIDE DEF all
  <1>2. Told /\ link = Links /\ unwritten \in Seq(Results) /\ LastOnes
    BY <1>1 DEF WriteInv, Told
  <1>3. /\ ResultSeq' = ResultSeq /\ Results' = Results /\ Links' = Links
        /\ \A n : AloneUpTo(n)' = AloneUpTo(n)
    BY <1>1, AloneStays
  <1>4. PICK q \in DecoderState, n \in 1 .. Len(ResultSeq) :
           /\ all \in Seq(Line) /\ Reads(all, q) /\ q.header
           /\ q.items = AloneUpTo(n) /\ n + Len(Tail(unwritten)) = Len(ResultSeq)
    BY <1>1, <1>2, NextIsRead DEF all
  <1>5. /\ Tail(unwritten) \in Seq(Results)
        /\ \A k \in 1 .. Len(Tail(unwritten)) :
               Tail(unwritten)[k] = ResultSeq[Len(ResultSeq) - Len(Tail(unwritten)) + k]
    <2>1. PICK m \in 0 .. Len(ResultSeq) : m + Len(unwritten) = Len(ResultSeq)
      BY <1>2 DEF Told
    <2> QED
      BY <1>1, <1>2, <2>1, NextIsLast
  <1>6. LastOnes'
    BY <1>1, <1>3, <1>5 DEF LastOnes
  <1>7. Reads(out, q)'
    BY <1>1, <1>4 DEF Reads
  <1>8. n \in 0 .. Len(ResultSeq)
    BY StoreType
  <1>9. Told'
    BY <1>1, <1>2, <1>3, <1>4, <1>5, <1>6, <1>7, <1>8 DEF Told
  <1> QED
    BY <1>1, <1>9 DEF WriteInv

\* What is told of a part of the channels is the beginning of what is told of all.
LEMMA AllBegins ==
  ASSUME PlaylistInv, link = Links, NEW n \in 0 .. Len(ResultSeq)
  PROVE  Begins(AloneUpTo(n), AloneUpTo(Len(ResultSeq))) /\ AloneUpTo(n) \in Seq(Elements)
         /\ AloneUpTo(Len(ResultSeq)) \in Seq(Elements)
  <1> DEFINE j == Joined(EachAlone)
             each == EachAlone
             l == Len(ResultSeq)
  <1>1. /\ l \in Nat /\ each \in Seq(Seq(Elements)) /\ l = Len(each)
        /\ j \in [0 .. l -> Seq(Elements)] /\ \A k \in 1 .. l : j[k] = j[k - 1] \o each[k]
    BY StoreType, AloneType
  <1> HIDE DEF j, each, l
  <1>2. n \in 0 .. l
    BY DEF l
  <1>3. Begins(j[n], j[l])
    BY <1>1, <1>2, JoinedBegins
  <1>4. j[n] \in Seq(Elements) /\ j[l] \in Seq(Elements)
    BY <1>1, <1>2
  <1> QED
    BY <1>3, <1>4 DEF AloneUpTo, j, l

LEMMA WriteFailsStep ==
  ASSUME PlaylistInv, WriteInv, WriteFails
  PROVE  WriteInv'
  <1> DEFINE all == Encode(out, channels[Head(unwritten)], WrittenURI(Head(unwritten)))
             N == Len(ResultSeq)
  <1>1. /\ phase = "write" /\ phase' = "returned" /\ unwritten # <<>>
        /\ \E m \in Len(out) + 1 .. Len(all) : out' = SubSeq(all, 1, m)
        /\ result' \in {"cut", "error"} /\ UNCHANGED <<channels, channelStreams, link>>
    BY DEF WriteFails, mergeVars
  <1> HIDE DEF all
  <1>2. Told /\ link = Links /\ out \in Seq(Line)
    BY <1>1 DEF WriteInv, Told
  <1>3. /\ ResultSeq' = ResultSeq /\ Results' = Results /\ Links' = Links
        /\ \A n : AloneUpTo(n)' = AloneUpTo(n)
    BY <1>1, AloneStays
  <1>4. PICK q \in DecoderState, n \in 1 .. N :
           all \in Seq(Line) /\ Reads(all, q) /\ q.items = AloneUpTo(n)
    BY <1>1, <1>2, NextIsRead DEF all
  <1>5. n \in 0 .. N /\ N \in Nat
    BY StoreType
  <1>6. /\ Begins(q.items, AloneUpTo(N)) /\ q.items \in Seq(Elements)
        /\ AloneUpTo(N) \in Seq(Elements)
    BY <1>2, <1>4, <1>5, AllBegins
  <1>7. PICK m \in 0 .. Len(all) : out' = SubSeq(all, 1, m)
    <2>1. Len(out) \in Nat /\ Len(all) \in Nat
      BY <1>2, <1>4, LenProperties
    <2>2. \A m \in Len(out) + 1 .. Len(all) : m \in 0 .. Len(all)
      BY <2>1
    <2> QED
      BY <1>1, <2>2
  <1>8. PICK c \in DecoderState : Reads(out', c) /\ Begins(c.items, q.items)
    BY <1>4, <1>7, FirstRead
  <1>9. out' \in Seq(Line)
    BY <1>4, <1>7, FirstRead
  <1>10. c.items \in Seq(Elements)
    BY DEF DecoderState
  <1>11. Begins(c.items, AloneUpTo(N))
    BY <1>6, <1>8, <1>10, BeginsBegins
  <1>12. Reads(out, c)'
    BY <1>8 DEF Reads
  <1>13. Broken'
    BY <1>1, <1>2, <1>3, <1>9, <1>11, <1>12 DEF Broken
  <1> QED
    BY <1>1, <1>13 DEF WriteInv

LEMMA WrittenStep ==
  ASSUME PlaylistInv, WriteInv, Written
  PROVE  WriteInv'
  <1>1. /\ phase = "write" /\ unwritten = <<>> /\ phase' = "returned" /\ unwritten' = unwritten
        /\ UNCHANGED <<channels, channelStreams, link, out, unwritten>>
    BY DEF Written, mergeVars, output
  <1>2. Told
    BY <1>1 DEF WriteInv
  <1>3. PICK d \in DecoderState, n \in 0 .. Len(ResultSeq) : Reads(out, d) /\ d.items = AloneUpTo(n)
    BY <1>2 DEF Told
  <1>4. Begins(d.items, AloneUpTo(Len(ResultSeq)))
    BY <1>2, <1>3, AllBegins DEF Told
  <1>5. Broken
    BY <1>2, <1>3, <1>4 DEF Told, Broken
  <1>6. Told' /\ Broken'
    BY <1>1, <1>2, <1>5, ToldStays
  <1> QED
    BY <1>1, <1>6 DEF WriteInv

LEMMA WriteStep == PlaylistInv /\ WriteInv /\ [Next]_vars => WriteInv'
  <1> SUFFICES ASSUME PlaylistInv, WriteInv, [Next]_vars PROVE WriteInv'
    OBVIOUS
  <1>1. CASE StartDecoder \/ StartFails \/ StartDone
    BY <1>1, EarlyStep DEF StartDecoder, StartFails, StartDone, output
  <1>2. CASE StopBuffer \/ StopBufferReturns \/ AddTrack \/ TracksEnd \/ ReadFails
    BY <1>2, EarlyStep
       DEF StopBuffer, StopBufferReturns, AddTrack, TracksEnd, ReadFails, Reading, decoding, output
  <1>3. CASE Close
    BY <1>3, EarlyStep DEF Close, output
  <1>4. CASE RulesFail \/ ChannelRulesApply \/ RulesDone
    BY <1>4, EarlyStep DEF RulesFail, ChannelRulesApply, RulesDone, Fail, output
  <1>5. CASE PlaylistRuleApplies
    BY <1>5, EarlyStep DEF PlaylistRuleApplies, Fail
  <1>6. CASE Merge
    BY <1>6, EarlyStep DEF Merge, decoding, output
  <1>7. CASE Collect \/ WriteChannel \/ WriteFails \/ Written
    BY <1>7, CollectStep, WriteChannelStep, WriteFailsStep, WrittenStep
  <1>8. CASE (\E d \in Sources : Goroutine(d)) \/ ClientGone \/ Terminating \/ UNCHANGED vars
    BY <1>8, QuietWrite DEF Goroutine, ClientGone, Terminating, vars, mergeVars, decoding, output
  <1> QED
    BY <1>1, <1>2, <1>3, <1>4, <1>5, <1>6, <1>7, <1>8 DEF Next, WriteTo

\* WriteChannels: what was written so far is read as the channels written so far.
THEOREM WriteInvariance == Spec => []WriteInv
  <1>1. Init => WriteInv
    BY DEF Init, WriteInv
  <1> QED
    BY <1>1, WriteStep, PlaylistInvariance, PTL DEF Spec

LEMMA TornType ==
  ASSUME NEW line \in Line, NEW l \in Torn(line)
  PROVE  l \in Line
  <1>1. CASE line.kind = "uri"
    <2>1. PICK v \in Beginnings[line.value] : l = Alone[v]
      BY <1>1 DEF Torn
    <2>2. line.value \in Values
      BY <1>1 DEF Line
    <2>3. v \in Values
      BY <2>2, LinesAssumption
    <2> QED
      BY <2>1, <2>3, LinesAssumption
  <1>2. CASE line.kind # "uri"
    <2>1. l = line \/ l = OtherLine \/ l = [kind |-> "badExtinf"]
      BY <1>2 DEF Torn
    <2>2. OtherLine \in Line /\ [kind |-> "badExtinf"] \in Line
      BY DEF OtherLine, Line
    <2> QED
      BY <2>1, <2>2
  <1> QED
    BY <1>1, <1>2

\* The parts of ReadsBack: what is read of lines that are cut off begins what is read
\* of all, up to one entry.
LEMMA CutRead ==
  ASSUME PlaylistInv, Broken, NEW lines \in Cut(out)
  PROVE  LET read == Decoded(lines) IN
         read = <<>> \/ IsPrefix(Front(read), AloneUpTo(Len(ResultSeq)))
  <1> DEFINE all == AloneUpTo(Len(ResultSeq))
  <1>1. PICK d \in DecoderState : Reads(out, d) /\ Begins(d.items, all)
    BY DEF Broken
  <1>2. out \in Seq(Line) /\ Len(out) \in Nat
    BY LenProperties DEF Broken
  <1>3. all \in Seq(Elements)
    <2>1. Len(ResultSeq) \in 0 .. Len(ResultSeq)
      BY StoreType
    <2> QED
      BY <2>1, AllBegins DEF Broken
  <1>4. d.items \in Seq(Elements)
    BY DEF DecoderState
  <1> HIDE DEF all
  <1>5. ASSUME NEW m \in 0 .. Len(out)
        PROVE  /\ SubSeq(out, 1, m) \in Seq(Line)
               /\ \E c \in DecoderState :
                     Reads(SubSeq(out, 1, m), c) /\ c.items \in Seq(Elements) /\ Begins(c.items, all)
    <2>1. /\ SubSeq(out, 1, m) \in Seq(Line)
          /\ \E q \in DecoderState : Reads(SubSeq(out, 1, m), q) /\ Begins(q.items, d.items)
      BY <1>1, <1>2, FirstRead
    <2>2. PICK q \in DecoderState : Reads(SubSeq(out, 1, m), q) /\ Begins(q.items, d.items)
      BY <2>1
    <2>3. q.items \in Seq(Elements)
      BY DEF DecoderState
    <2>4. Begins(q.items, all)
      BY <1>1, <1>3, <1>4, <2>2, <2>3, BeginsBegins
    <2> QED
      BY <2>1, <2>2, <2>3, <2>4
  <1>6. ASSUME NEW m \in 0 .. Len(out), lines = SubSeq(out, 1, m)
        PROVE  Decoded(lines) = <<>> \/ IsPrefix(Front(Decoded(lines)), all)
    <2>1. PICK c \in DecoderState :
             /\ lines \in Seq(Line) /\ Reads(lines, c)
             /\ c.items \in Seq(Elements) /\ Begins(c.items, all)
      BY <1>5, <1>6
    <2>2. Decoded(lines) = c.items /\ c.items \o <<>> = c.items
      BY <2>1, DecodedIs, ConcatEmptySeq
    <2>3. <<>> \in Seq(Elements) /\ Len(<<>>) <= 1
      OBVIOUS
    <2> DEFINE nothing == <<>>
    <2>4. c.items \o nothing = <<>> \/ IsPrefix(Front(c.items \o nothing), all)
      <3>1. nothing \in Seq(Elements) /\ Len(nothing) <= 1
        BY <2>3
      <3> HIDE DEF nothing
      <3> QED
        BY <1>3, <2>1, <3>1, FrontBegins
    <2> QED
      BY <2>2, <2>4
  <1>7. ASSUME NEW n \in DOMAIN out, NEW l \in Torn(out[n]), lines = Append(SubSeq(out, 1, n - 1), l)
        PROVE  Decoded(lines) = <<>> \/ IsPrefix(Front(Decoded(lines)), all)
    <2>1. n \in 1 .. Len(out) /\ out[n] \in Line
      BY <1>2, LenProperties, ElementOfSeq
    <2>2. l \in Line
      BY <2>1, TornType
    <2>3. n - 1 \in 0 .. Len(out)
      BY <1>2, <2>1
    <2> DEFINE m == n - 1
               a == SubSeq(out, 1, m)
    <2> HIDE DEF m
    <2>4. m \in 0 .. Len(out)
      BY <2>3 DEF m
    <2>5. PICK c \in DecoderState :
             a \in Seq(Line) /\ Reads(a, c) /\ c.items \in Seq(Elements) /\ Begins(c.items, all)
      BY <1>5, <2>4
    <2>6. lines = Append(a, l)
      BY <1>7 DEF m
    <2> HIDE DEF a
    <2>7. lines \in Seq(Line) /\ Reads(lines, Decode(c, l))
      BY <2>2, <2>5, <2>6, ReadsOne
    <2>8. Decoded(lines) = Decode(c, l).items
      BY <2>7, DecodedIs
    <2>9. PICK new \in Seq(Elements) : Len(new) <= 1 /\ Decode(c, l).items = c.items \o new
      BY <2>2, DecodeGrows
    <2>10. c.items \o new = <<>> \/ IsPrefix(Front(c.items \o new), all)
      BY <1>3, <2>5, <2>9, FrontBegins
    <2> QED
      BY <2>8, <2>9, <2>10
  <1>8. \/ \E m \in 0 .. Len(out) : lines = SubSeq(out, 1, m)
        \/ \E n \in DOMAIN out : \E l \in Torn(out[n]) : lines = Append(SubSeq(out, 1, n - 1), l)
    BY DEF Cut
  <1> QED
    BY <1>6, <1>7, <1>8 DEF all

\* A legible channel is read as it is.
LEMMA LegibleIsRead ==
  ASSUME PlaylistInv, link = Links, NEW i \in Results, Legible(i)
  PROVE  Len(ReadAlone(i)) = 1 /\ ReadAs(ReadAlone(i)[1], i)
  <1> DEFINE ch == channels[i]
             uri == WrittenURI(i)
             alone == Decoded(<<HeaderLine>> \o encodeTrack(ch, uri))
             item == alone[1]
  <1>1. ch \in Channel /\ uri \in URI
    BY StoreType, WrittenURIType
  <1>2. Alone[uri] = URILine(uri) /\ QuietTags(ch)
    BY DEF Legible, QuietTags
  <1>3. ReadAlone(i) = alone
    BY DEF ReadAlone
  <1>4. /\ Len(alone) = 1 /\ item.kind = "track" /\ item.uri = uri
        /\ Whole(ch) => item.attrs = ch.attrs
        /\ Whole(ch) /\ Named(ch) => item.name = ch.name
        /\ KeepsTags(ch) => item.tags = ch.tags
    <2> HIDE DEF ch, uri
    <2> QED
      BY <1>1, <1>2, LegibleRead
  <1> HIDE DEF alone
  <1>5. ReadAs(item, i)
    BY <1>4 DEF ReadAs, Whole, Named, KeepsTags
  <1> QED
    BY <1>3, <1>4, <1>5

\* WriteChannels: for every listing that a client gets, whole or cut off anywhere, another
\* majmun reads what the channels are by themselves, in the same order, and a legible one
\* with its link, attributes, name and tags.
THEOREM ReadsBackCorrect == Spec => []ReadsBack
  <1>1. PlaylistInv /\ WriteInv => ReadsBack
    <2> SUFFICES ASSUME PlaylistInv, WriteInv, phase = "returned", result = "error" => out # <<>>
                 PROVE  LET seq == ResultSeq
                            all == Joined([k \in DOMAIN seq |-> ReadAlone(seq[k])])[Len(seq)] IN
                        /\ result = "ok" => Decoded(out) = all
                        /\ \A lines \in Cut(out) :
                              LET read == Decoded(lines) IN read = <<>> \/ IsPrefix(Front(read), all)
                        /\ \A k \in DOMAIN seq : Legible(seq[k]) =>
                              Len(ReadAlone(seq[k])) = 1 /\ ReadAs(ReadAlone(seq[k])[1], seq[k])
      BY DEF ReadsBack
    <2> DEFINE all == AloneUpTo(Len(ResultSeq))
    <2>1. all = Joined([k \in DOMAIN ResultSeq |-> ReadAlone(ResultSeq[k])])[Len(ResultSeq)]
      BY DEF AloneUpTo, EachAlone
    <2>2. Broken /\ link = Links /\ (result = "ok" => Told /\ unwritten = <<>>)
      BY DEF WriteInv, Broken
    <2>3. ASSUME result = "ok" PROVE Decoded(out) = all
      <3>1. PICK d \in DecoderState, n \in 0 .. Len(ResultSeq) :
               Reads(out, d) /\ n + Len(unwritten) = Len(ResultSeq) /\ d.items = AloneUpTo(n)
        BY <2>2, <2>3 DEF Told
      <3>2. n = Len(ResultSeq)
        <4>1. Len(unwritten) = 0 /\ n \in Nat
          BY <2>2, <2>3
        <4> QED
          BY <3>1, <4>1
      <3> QED
        BY <2>2, <3>1, <3>2, DecodedIs DEF Broken
    <2>4. \A lines \in Cut(out) :
             LET read == Decoded(lines) IN read = <<>> \/ IsPrefix(Front(read), all)
      BY <2>2, CutRead
    <2>5. \A k \in DOMAIN ResultSeq : Legible(ResultSeq[k]) =>
             Len(ReadAlone(ResultSeq[k])) = 1 /\ ReadAs(ReadAlone(ResultSeq[k])[1], ResultSeq[k])
      <3>1. \A k \in DOMAIN ResultSeq : ResultSeq[k] \in Results
        BY StoreType, LenProperties
      <3> QED
        BY <2>2, <3>1, LegibleIsRead
    <2> HIDE DEF all
    <2> QED
      BY <2>1, <2>3, <2>4, <2>5
  <1> QED
    BY <1>1, PlaylistInvariance, WriteInvariance, PTL
=============================================================================
