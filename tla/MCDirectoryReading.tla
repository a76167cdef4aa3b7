------------------------- MODULE MCDirectoryReading -------------------------
(***************************************************************************)
(* Two groups and two people: the second published version governs both    *)
(* groups.  Ann is in one group and Ben below the other, or both are in    *)
(* one group, which is one more than is read.                              *)
(***************************************************************************)
EXTENDS RosterScreen

CONSTANTS staff, crew, ann, ben, red, blue, cli, small, large, huge

MCCatalogue == <<{staff}, {staff, crew}>>

InGroups(standing) ==
    [g \in {staff, crew} |-> [p \in {ann, ben} |->
        IF <<g, p>> \in DOMAIN standing THEN standing[<<g, p>>] ELSE "none"]]

MCStart ==
    {InGroups([x \in {<<staff, ann>>} |-> "direct"]),
     InGroups([x \in {<<staff, ann>>, <<staff, ben>>} |-> "inherited"]),
     InGroups([x \in {<<staff, ann>>, <<crew, ben>>} |-> "direct"])}

\* The second version gives staff to another team.  The organization allows three
\* models; each team is granted one of them, Ben two by name, and an application one.
MCTeamOf ==
    <<[g \in {staff, crew} |-> IF g = staff THEN red ELSE blue],
      [g \in {staff, crew} |-> IF g = staff THEN blue ELSE red]>>

MCBinding ==
    LET always == {[target |-> Everyone, models |-> {small, large, huge}],
                   [target |-> red, models |-> {small}],
                   [target |-> cli, models |-> {huge}]}
    IN  <<always, always \union {[target |-> blue, models |-> {large}],
                                 [target |-> SubjectKey(ben), models |-> {small, huge}]}>>

=============================================================================
