--------------------------- MODULE MCOrchestrator ---------------------------
(***************************************************************************)
(* Profiles of one node: two consultants and one that is found only by its *)
(* tag or by an action request; or two of which a tag finds one and a      *)
(* question without tags none.  A question has that tag or none.           *)
(***************************************************************************)
EXTENDS Orchestrator, TLC

CONSTANTS t1, t2, t3, server, gateway, recovery, doris, ray, cody, home,
          consultation, action, other, code

MCProfiles == {doris, ray, cody}
MCKeywords == {consultation, action, other, code}

Cap(name, intents, tags) ==
    [profile_name |-> name, node_id |-> home, intents |-> intents, tags |-> tags]

MCConsultants ==
    << Cap(doris, {consultation}, {}), Cap(ray, {consultation, other}, {}),
       Cap(cody, {action}, {code}) >>

\* Nobody consults; only a tag finds a specialist.
MCNoConsultants ==
    << Cap(ray, {other}, {}), Cap(cody, {other}, {code}) >>

To(profile, type) ==
    [intent_type |-> type, tags |-> {}, target_profile |-> profile, target_node |-> None]

MCSubmitted == { To(doris, consultation), To(ray, other), To(cody, action) }

MCOthers == { To(ray, other), To(cody, other) }

MCQuestionTags == {{}, {code}}

\* Two callers that report are alike.
MCSymmetry == Permutations({server, gateway})

=============================================================================
