------------------------------ MODULE ChannelRules ------------------------------
(***************************************************************************)
(* The rules for single channels (rules/channel/processor.go).  A rule has *)
(* a condition or Absent, and a selector and a template if its kind does.  *)
(***************************************************************************)
EXTENDS Channels

ChannelRule ==
    [kind : {"set_field", "remove_field", "remove_channel", "mark_hidden"},
     condition : Maybe(Conditions), selector : Selector, template : Template]

-----------------------------------------------------------------------------
evaluateField(ch, c, client) ==
    LET value == GetFieldValue(ch, c.selector) IN
    /\ c.patterns # <<>> => value # Absent /\ MatchesAny(c.patterns, value)
    /\ c.clients # {} => client \in c.clients
    /\ c.playlists # {} => ch.pl \in c.playlists

\* A removed channel matches nothing, not even an inverted condition; "or" is not
\* looked at where there is an "and".
matchesCondition(ch, condition, client) ==
    LET matches[c \in Conditions] ==
            /\ ~ch.removed
            /\ c.invert # (/\ evaluateField(ch, c, client)
                           /\ IF c.and # {} THEN \A sub \in c.and : matches[sub]
                              ELSE c.or = {} \/ \E sub \in c.or : matches[sub])
    IN matches[condition]

Applies(ch, rule, client) ==
    rule.condition = Absent \/ matchesCondition(ch, rule.condition, client)

\* The channel after the rule, or Absent if the rule fails.  To remove a tag, the
\* attribute of that name is deleted, if there is such a tag.
processChannelRule(ch, rule, client) ==
    LET value == Render(rule.template, ch, "")
        sel   == rule.selector IN
    IF ~Applies(ch, rule, client) THEN ch
    ELSE CASE rule.kind = "remove_channel" -> [ch EXCEPT !.removed = TRUE]
           [] rule.kind = "mark_hidden"    -> [ch EXCEPT !.hidden = TRUE]
           [] rule.kind = "set_field"      ->
                 IF Invalid(sel, value) THEN Absent ELSE SetField(ch, sel, value)
           [] rule.kind = "remove_field"   ->
                 IF GetFieldValue(ch, sel) # Absent /\ sel.key \in AttrKeys
                 THEN [ch EXCEPT !.attrs[sel.key] = Absent] ELSE ch

\* All rules, in their order.
ApplyChannelRules(ch, rules, client) ==
    LET ruled[k \in 0 .. Len(rules)] ==
            IF k = 0 THEN ch
            ELSE IF ruled[k - 1] = Absent THEN Absent
            ELSE processChannelRule(ruled[k - 1], rules[k], client)
    IN ruled[Len(rules)]
=============================================================================
