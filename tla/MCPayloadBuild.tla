---------------------------- MODULE MCPayloadBuild ---------------------------
(***************************************************************************)
(* A payload with one path of each policy, two generations of it that      *)
(* differ in a path and in a content, a third with a path that nothing     *)
(* classifies and one with a forbidden name.                               *)
(***************************************************************************)
EXTENDS PayloadBuild

MCPolicy ==
  [p \in Paths |->
     CASE p = "kernel" -> Locked
       [] p = "ddx20" -> <<"ddx", "1.20">>
       [] p = "ddx21" -> <<"ddx", "1.21">>
       [] p = "ucm2" -> <<"ucm", "ucm2">>
       [] p = "wayland" -> <<"wayland", "on">>
       [] p = "unknown" -> Unclassified
       [] OTHER -> <<"direct">>]

ListOf(extra) == [p \in {"ddx20", "ddx21", "ucm2", "wayland", "link", "lib", extra} |-> "a"]
MCLists ==
  {ListOf("kernel"), [ListOf("lib2") EXCEPT !["ddx21"] = "b"], ListOf("unknown"), ListOf("odri")}

\* The default preset, and one that differs from it in everything.
MCPresets == {DefaultPreset, [abi |-> "1.20", ucm |-> "ucm", wayland |-> "on"]}

\* Bound: three changes and kills, the first edit of a patch counted twice; no
\* edits with the other preset.
Edited == patches # [p \in Late \cup {Gated} |-> ReviewedEdition]
Within ==
  /\ changes + kills + (IF Edited THEN 1 ELSE 0) <= 3
  /\ Edited => build.preset = DefaultPreset

Init == PayloadInit /\ list.text = ListOf("kernel") /\ build.preset \in MCPresets
Spec == Init /\ [][PayloadNext /\ Within']_payloadVars
\* The tools run, and a build or a generation that failed is repeated.
FairSpec ==
  /\ Spec /\ WF_payloadVars(BuildStep) /\ WF_payloadVars(BuildAgain)
  /\ WF_payloadVars(GeneratorStep) /\ WF_payloadVars(GenerateAgain)
=============================================================================
