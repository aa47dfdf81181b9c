--------------------------- MODULE PayloadManifest ---------------------------
(***************************************************************************)
(* The binary manifest of the vendor payload: every file of the payload    *)
(* with its content and with the policy that says whether a package gets   *)
(* it.  gen-fantgpu-manifest.py makes it from the audited list of the      *)
(* payload, which the integrity generation writes; the driver build reads  *)
(* it three times (PayloadBuild).                                          *)
(*                                                                         *)
(* A list, a manifest and a vendor tree are functions from paths to        *)
(* contents; a content stands for a digest with a mode, or for the target  *)
(* of a symbolic link.  Policies, counts and roles are functions of the    *)
(* paths, so a manifest needs no fields for them.                          *)
(***************************************************************************)
EXTENDS Naturals, Sequences, FiniteSets

CONSTANTS Paths, Links,   \* of a payload; those that are symbolic links
          Policy,         \* what the classification table says of a path
          Forbidden,      \* paths with the name of an O-lineage loader
          Contents, Lists, \* lists that an audit may have written
          Abis, Reviewed, Sources, \* kernel source generations
          Late,          \* patches the build applies behind its digest gate
          Gated,         \* the patch it applies in front of it
          Editions, ReviewedEdition, Unapplied, \* contents of a patch; not in a tree
          Applying, Building, Marked, \* of them: apply; the module builds; leave the marks
          MarksBuilt, MarksShipped,   \* patches whose marks the two trees are searched for
          MaxChanges, MaxKills     \* bounds: changes by others, kills

ASSUME PayloadAssumption ==
  /\ Links \subseteq Paths /\ Forbidden \subseteq Paths /\ DOMAIN Policy = Paths
  /\ \A l \in Lists : DOMAIN l \subseteq Paths /\ \A p \in DOMAIN l : l[p] \in Contents
  /\ Reviewed \in Sources /\ ReviewedEdition \in Editions /\ Unapplied \notin Editions
  /\ Gated \notin Late /\ (MarksBuilt \cup MarksShipped) \subseteq Late
  /\ (Applying \cup Building \cup Marked) \subseteq Editions
  /\ {MaxChanges, MaxKills} \subseteq Nat

VARIABLES list,      \* the audited list and what its sidecar is the digest of
          manifest,  \* the generated manifest, empty before there is one
          vendor,    \* the vendor tree
          ostage,    \* generation of the source snapshot and of its rows
          patches,   \* edition per patch, in the checkout
          edited,    \* history: late patches edited since the compiled tree got them
          generator, \* the process that generates the manifest
          build,     \* the process that builds the package
          changes, kills

payloadVars ==
  <<list, manifest, vendor, ostage, patches, edited, generator, build, changes, kills>>
shared == <<list, vendor, ostage, patches, changes>>

NoFiles == [p \in {} |-> {}]
Unclassified == <<"unclassified">>
Locked == <<"locked-reference">>

\* What a build with a preset takes (annotate, expected_materialized,
\* rule_selected and materialize decide it in the same way), and where to.
Selected(p, preset) ==
  Policy[p] \in {<<"direct">>, <<"ddx", preset.abi>>, <<"ucm", preset.ucm>>,
                 <<"wayland", preset.wayland>>}
Selection(m, preset) == {p \in DOMAIN m : Selected(p, preset)}
Destination(p) == IF Policy[p][1] = "ddx" THEN <<"ddx">> ELSE <<"path", p>>

(***************************************************************************)
(* The generator.                                                          *)
(***************************************************************************)
Generate(to) == generator' = to
GeneratorIdle == [pc |-> "idle", read |-> NoFiles]

\* The digest of the list is the one in its sidecar.
CheckSidecar ==
  /\ generator.pc = "idle"
  /\ Generate([generator EXCEPT !.pc = IF list.text = list.sum THEN "read" ELSE "failed"])
  /\ UNCHANGED manifest

\* The list is opened once more to read its rows.
ReadList ==
  /\ generator.pc = "read"
  /\ Generate([pc |-> "annotate", read |-> list.text])
  /\ UNCHANGED manifest

WellClassified(l) ==
  /\ \A p \in DOMAIN l : Policy[p] # Unclassified
  /\ \A abi \in Abis : Cardinality({p \in DOMAIN l : Policy[p] = <<"ddx", abi>>}) = 1

Annotate ==
  /\ generator.pc = "annotate"
  /\ Generate([generator EXCEPT !.pc = IF WellClassified(generator.read) THEN "replace" ELSE "failed"])
  /\ UNCHANGED manifest

ReplaceManifest ==
  /\ generator.pc = "replace"
  /\ manifest' = generator.read /\ Generate([generator EXCEPT !.pc = "done"])

GeneratorStep ==
  /\ CheckSidecar \/ ReadList \/ Annotate \/ ReplaceManifest
  /\ UNCHANGED <<shared, edited, build, kills>>

GenerateAgain ==
  /\ generator.pc \in {"done", "failed"} /\ Generate(GeneratorIdle)
  /\ UNCHANGED <<manifest, shared, edited, build, kills>>

KillGenerator ==
  /\ generator.pc \in {"read", "annotate", "replace"} /\ kills < MaxKills
  /\ kills' = kills + 1 /\ Generate([generator EXCEPT !.pc = "failed"])
  /\ UNCHANGED <<manifest, shared, edited, build>>

(***************************************************************************)
(* Others.  An integrity generation replaces the list and then its         *)
(* sidecar; a restore moves the vendor tree away and another one in; a     *)
(* materialisation of the kernel sources replaces its artifacts one by     *)
(* one; anybody may touch a file of the tree, or edit a patch.             *)
(***************************************************************************)
Changed ==
  /\ changes < MaxChanges /\ changes' = changes + 1
  /\ UNCHANGED <<manifest, generator, build, kills>>

NewList ==
  /\ \E l \in Lists \ {list.text} : list' = [list EXCEPT !.text = l]
  /\ UNCHANGED <<vendor, ostage, patches, edited>>
NewSidecar ==
  /\ list.sum # list.text /\ list' = [list EXCEPT !.sum = list.text]
  /\ UNCHANGED <<vendor, ostage, patches, edited>>
MoveAway ==
  /\ vendor # NoFiles /\ vendor' = NoFiles
  /\ UNCHANGED <<list, ostage, patches, edited>>
MoveIn ==
  /\ vendor = NoFiles /\ vendor' \in Lists
  /\ UNCHANGED <<list, ostage, patches, edited>>
Touch ==
  /\ \E p \in DOMAIN vendor : \E c \in Contents \ {vendor[p]} : vendor' = [vendor EXCEPT ![p] = c]
  /\ UNCHANGED <<list, ostage, patches, edited>>
Republish ==
  /\ \E part \in {"snapshot", "rows"}, s \in Sources :
       s # ostage[part] /\ ostage' = [ostage EXCEPT ![part] = s]
  /\ UNCHANGED <<list, vendor, patches, edited>>
EditPatch ==
  /\ \E p \in Late \cup {Gated} : \E e \in Editions \ {patches[p]} :
       /\ patches' = [patches EXCEPT ![p] = e]
       /\ edited' = edited \cup ({p} \cap Late)
  /\ UNCHANGED <<list, vendor, ostage>>

Others ==
  /\ NewList \/ NewSidecar \/ MoveAway \/ MoveIn \/ Touch \/ Republish \/ EditPatch
  /\ Changed
=============================================================================
