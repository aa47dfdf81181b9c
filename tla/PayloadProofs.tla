---------------------------- MODULE PayloadProofs ----------------------------
(***************************************************************************)
(* Proofs about the vendor payload: what a finished package holds, for any *)
(* payload, policy, manifest and sources, and whatever others do to the    *)
(* inputs meanwhile (PayloadBuild); and that a vendor tree survives its    *)
(* restore, for any choice of the failures and of their number, and that   *)
(* the truth table of the scan is complete (PayloadRestore).               *)
(***************************************************************************)
EXTENDS PayloadRestore, PayloadBuild, TLAPS

(***************************************************************************)
(* The build of a package.                                                 *)
(***************************************************************************)

(***************************************************************************)
(* The inductive invariants.  Why the two properties hold: what is         *)
(* derived is compared with the reviewed sources in the build's own copy,  *)
(* a patch that is on a tree is the one of the checkout unless it was      *)
(* edited since, and the lines of the trace are all that is in the         *)
(* package.                                                                *)
(***************************************************************************)
IsBuild ==
  build = [pc |-> build.pc, preset |-> build.preset, m |-> build.m, todo |-> build.todo,
           hashed |-> build.hashed, package |-> build.package, trace |-> build.trace,
           compiled |-> build.compiled, shipped |-> build.shipped]

\* Places of the build where each tree is there, derived, and fully patched.
Fitted == {"package", "materialize", "install", "verify", "ship", "patch_shipped", "built"}
Derived == Fitted \cup {"patch"}
Unpacking == Derived \cup {"derive"}
Shipping == Fitted \ {"package"}
ShippedDerived == {"patch_shipped", "built"}

IsTree(tree) == tree = [source |-> tree.source, fixes |-> [p \in Late |-> tree.fixes[p]]]
\* The patches on a tree apply, and are those of a second place unless edited.
Follows(tree, editions) ==
  \A p \in Late : tree.fixes[p] # Unapplied =>
    tree.fixes[p] \in Applying /\ (p \in edited \/ tree.fixes[p] = editions[p])

CompiledInv ==
  /\ build.pc \in Unpacking => IsTree(build.compiled) /\ Follows(build.compiled, patches)
  /\ build.pc \in Derived => build.compiled.source = Reviewed
  /\ build.pc \in Fitted => Missing(build.compiled) = {}
ShippedInv ==
  /\ build.pc \in Shipping => IsTree(build.shipped) /\ Follows(build.shipped, build.compiled.fixes)
  /\ build.pc \in ShippedDerived => build.shipped.source = Reviewed
  /\ Finished => Missing(build.shipped) = {}
PatchesInv == patches = [p \in Late \cup {Gated} |-> patches[p]]
SourceInv == CompiledInv /\ ShippedInv /\ PatchesInv

TraceInv == DOMAIN build.package = {line[2] : line \in build.trace}
SelectionInv ==
  build.pc \in {"ship"} \cup ShippedDerived =>
    /\ DOMAIN build.package = {Destination(p) : p \in Selection(build.m, build.preset)}
    /\ \A p \in Selection(build.m, build.preset) : build.package[Destination(p)] = build.m[p]

PayloadIInv == IsBuild /\ SourceInv /\ TraceInv /\ SelectionInv

USE DEF Fitted, Derived, Unpacking, Shipping, ShippedDerived, SourceInv, CompiledInv, ShippedInv

LEMMA PayloadInitIInv == PayloadInit => PayloadIInv
<1> SUFFICES ASSUME PayloadInit PROVE PayloadIInv
  OBVIOUS
<1>1. PICK preset \in Presets : build = Fresh(preset)
  BY DEF PayloadInit
<1>2. PatchesInv
  BY DEF PayloadInit, PatchesInv
<1> QED BY <1>1, <1>2 DEF PayloadIInv, IsBuild, TraceInv, SelectionInv, Fresh, Finished, At, NoFiles

LEMMA FreshKeeps ==
  ASSUME PayloadIInv, NEW preset, build' = Fresh(preset), UNCHANGED <<patches, edited>>
  PROVE  PayloadIInv'
<1>1. PatchesInv'
  BY DEF PayloadIInv, PatchesInv
<1> QED BY <1>1 DEF PayloadIInv, IsBuild, TraceInv, SelectionInv, Fresh, Finished, At, NoFiles

\* A step of the build that changes neither the trees and the trace nor what
\* they are about.
LEMMA MovesOn ==
  ASSUME PayloadIInv, NEW to, UNCHANGED <<patches, edited>>,
         build' = [build EXCEPT !.pc = to],
         to \in Unpacking => build.pc \in Unpacking,
         to \in Derived => build.compiled.source = Reviewed,
         to \in Fitted => Missing(build.compiled) = {},
         to \in Shipping => build.pc \in Shipping,
         to \in ShippedDerived => build.shipped.source = Reviewed,
         to = "built" => Missing(build.shipped) = {},
         to \in {"ship"} \cup ShippedDerived => build.pc \in {"ship"} \cup ShippedDerived
  PROVE  PayloadIInv'
<1>1. /\ build' = [pc |-> to, preset |-> build.preset, m |-> build.m, todo |-> build.todo,
           hashed |-> build.hashed, package |-> build.package, trace |-> build.trace,
           compiled |-> build.compiled, shipped |-> build.shipped]
  BY DEF PayloadIInv, IsBuild
<1>2. IsBuild' /\ TraceInv' /\ PatchesInv'
  BY <1>1 DEF PayloadIInv, IsBuild, TraceInv, PatchesInv
<1>3. CompiledInv'
  BY <1>1 DEF PayloadIInv, IsTree, Follows, Missing
<1>4. ShippedInv'
  BY <1>1 DEF PayloadIInv, IsTree, Follows, Missing, Finished, At
<1>5. SelectionInv'
  BY <1>1 DEF PayloadIInv, SelectionInv, Selection
<1> QED BY <1>2, <1>3, <1>4, <1>5 DEF PayloadIInv

\* A step that leaves the place of the build and its trees alone.
LEMMA SameTrees ==
  ASSUME PayloadIInv, UNCHANGED <<patches, edited>>,
         build'.pc = build.pc, build'.compiled = build.compiled, build'.shipped = build.shipped
  PROVE  SourceInv'
<1>1. PatchesInv'
  BY DEF PayloadIInv, PatchesInv
<1>2. CompiledInv'
  BY DEF PayloadIInv, IsTree, Follows, Missing
<1>3. ShippedInv'
  BY DEF PayloadIInv, IsTree, Follows, Missing, Finished, At
<1> QED BY <1>1, <1>2, <1>3

\* A tree as it comes out of the snapshot.
LEMMA UnpackedTree ==
  ASSUME NEW source, NEW editions
  PROVE  IsTree(Unpacked(source)) /\ Follows(Unpacked(source), editions)
BY DEF IsTree, Follows, Unpacked

\* One more patch on a tree.
LEMMA PatchedTree ==
  ASSUME NEW tree, IsTree(tree), NEW q \in Missing(tree)
  PROVE  /\ IsTree(Patched(tree, q)) /\ Patched(tree, q).source = tree.source
         /\ \A p \in Late : Patched(tree, q).fixes[p] = IF p = q THEN patches[q] ELSE tree.fixes[p]
<1> DEFINE fixes == [p \in Late |-> tree.fixes[p]]
           patched == [p \in Late |-> IF p = q THEN patches[q] ELSE tree.fixes[p]]
<1>1. tree = [source |-> tree.source, fixes |-> fixes]
  BY DEF IsTree
<1>2. [tree.fixes EXCEPT ![q] = patches[q]] = patched
  <2>1. tree.fixes = fixes
    BY <1>1
  <2>2. q \in Late
    BY DEF Missing
  <2> QED BY <2>1, <2>2
<1>3. Patched(tree, q) = [source |-> tree.source, fixes |-> patched]
  BY <1>1, <1>2 DEF Patched
<1> QED BY <1>3 DEF IsTree

\* The compiled tree gets a patch as it is in the checkout.
LEMMA PatchCompiledKeeps ==
  ASSUME PayloadIInv, PatchCompiled, UNCHANGED patches
  PROVE  PayloadIInv'
<1> DEFINE q == NextPatch(Missing(build.compiled))
<1>1. q \in Missing(build.compiled) /\ build.pc = "patch"
  BY DEF PatchCompiled, NextPatch, At
<1>p. PatchesInv'
  BY DEF PayloadIInv, PatchesInv
<1> HIDE DEF q
<1>2. edited' = edited \ {q}
  BY DEF PatchCompiled, q
<1>3. CASE build' = [build EXCEPT !.pc = "failed"]
  <2>1. build' = [pc |-> "failed", preset |-> build.preset, m |-> build.m, todo |-> build.todo,
           hashed |-> build.hashed, package |-> build.package, trace |-> build.trace,
           compiled |-> build.compiled, shipped |-> build.shipped]
    BY <1>3 DEF PayloadIInv, IsBuild
  <2> QED BY <2>1, <1>p DEF PayloadIInv, IsBuild, TraceInv, SelectionInv, Finished, At
<1>4. CASE patches[q] \in Applying /\ build' = [build EXCEPT !.compiled = Patched(@, q)]
  <2>1. build' = [pc |-> "patch", preset |-> build.preset, m |-> build.m, todo |-> build.todo,
           hashed |-> build.hashed, package |-> build.package, trace |-> build.trace,
           compiled |-> Patched(build.compiled, q), shipped |-> build.shipped]
    BY <1>1, <1>4 DEF PayloadIInv, IsBuild
  <2>2. IsTree(build.compiled) /\ Follows(build.compiled, patches)
    BY <1>1 DEF PayloadIInv
  <2>3. IsTree(Patched(build.compiled, q)) /\ Patched(build.compiled, q).source = Reviewed
    BY <1>1, <2>2, PatchedTree DEF PayloadIInv
  <2>4. Follows(build.compiled, patches)'
    <3>1. \A p \in Late : Patched(build.compiled, q).fixes[p] =
             IF p = q THEN patches[q] ELSE build.compiled.fixes[p]
      BY <1>1, <2>2, PatchedTree
    <3> QED BY <1>2, <1>4, <2>1, <2>2, <3>1 DEF Follows
  <2>5. CompiledInv'
    BY <2>1, <2>3, <2>4 DEF IsTree
  <2> QED BY <1>p, <2>1, <2>5 DEF PayloadIInv, IsBuild, TraceInv, SelectionInv, Finished, At
<1> QED BY <1>3, <1>4 DEF PatchCompiled, q, Step, Proceed

\* The shipped tree gets a patch, the same as the compiled one unless edited.
LEMMA PatchShippedKeeps ==
  ASSUME PayloadIInv, PatchShipped, UNCHANGED <<patches, edited>>
  PROVE  PayloadIInv'
<1> DEFINE q == NextPatch(Missing(build.shipped))
<1>1. q \in Missing(build.shipped) /\ build.pc = "patch_shipped"
  BY DEF PatchShipped, ToPatch, NextPatch, At
<1> HIDE DEF q
<1>3. CASE build' = [build EXCEPT !.pc = "failed"]
  BY <1>3, MovesOn
<1>4. CASE patches[q] \in Applying /\ build' = [build EXCEPT !.shipped = Patched(@, q)]
  <2>1. build' = [pc |-> "patch_shipped", preset |-> build.preset, m |-> build.m, todo |-> build.todo,
           hashed |-> build.hashed, package |-> build.package, trace |-> build.trace,
           compiled |-> build.compiled, shipped |-> Patched(build.shipped, q)]
    BY <1>1, <1>4 DEF PayloadIInv, IsBuild
  <2>2. /\ IsTree(build.shipped) /\ Follows(build.shipped, build.compiled.fixes)
        /\ Follows(build.compiled, patches) /\ Missing(build.compiled) = {}
    BY <1>1 DEF PayloadIInv
  <2>3. IsTree(Patched(build.shipped, q)) /\ Patched(build.shipped, q).source = Reviewed
    BY <1>1, <2>2, PatchedTree DEF PayloadIInv
  <2>4. Follows(build.shipped, build.compiled.fixes)'
    <3>1. \A p \in Late : Patched(build.shipped, q).fixes[p] =
             IF p = q THEN patches[q] ELSE build.shipped.fixes[p]
      BY <1>1, <2>2, PatchedTree
    <3>2. q \in edited \/ patches[q] = build.compiled.fixes[q]
      BY <1>1, <2>2 DEF Follows, Missing
    <3> QED BY <1>4, <2>1, <2>2, <3>1, <3>2 DEF Follows
  <2>5. ShippedInv'
    BY <2>1, <2>3, <2>4 DEF IsTree, Finished, At
  <2>6. CompiledInv'
    BY <1>1, <2>1 DEF PayloadIInv, IsTree, Follows, Missing
  <2>7. SelectionInv'
    BY <1>1, <2>1 DEF PayloadIInv, SelectionInv, Selection
  <2>8. PatchesInv'
    BY DEF PayloadIInv, PatchesInv
  <2> QED BY <2>1, <2>5, <2>6, <2>7, <2>8 DEF PayloadIInv, IsBuild, TraceInv
<1> QED BY <1>3, <1>4 DEF PatchShipped, ToPatch, q, Step, Proceed

\* An edit of a patch is remembered.
LEMMA EditKeeps ==
  ASSUME PayloadIInv, EditPatch, UNCHANGED build
  PROVE  PayloadIInv'
<1>1. PICK q \in Late \cup {Gated} : \E e \in Editions :
        patches' = [patches EXCEPT ![q] = e] /\ edited' = edited \cup ({q} \cap Late)
  BY DEF EditPatch
<1>2. PatchesInv' /\ \A p \in Late : p # q => patches'[p] = patches[p]
  BY <1>1 DEF PayloadIInv, PatchesInv
<1>3. CompiledInv'
  BY <1>1, <1>2 DEF PayloadIInv, IsTree, Follows, Missing
<1>4. ShippedInv'
  BY <1>1 DEF PayloadIInv, IsTree, Follows, Missing, Finished, At
<1> QED BY <1>2, <1>3, <1>4 DEF PayloadIInv, IsBuild, TraceInv, SelectionInv, Selection

LEMMA InstallKeeps ==
  ASSUME PayloadIInv, build.pc = "install", NEW p, NEW content, Install(p, content),
         UNCHANGED <<patches, edited>>
  PROVE  PayloadIInv'
<1> DEFINE package == [d \in DOMAIN build.package \cup {Destination(p)} |->
                         IF d = Destination(p) THEN content ELSE build.package[d]]
           trace == build.trace \cup {<<p, Destination(p)>>}
<1>1. build' = [pc |-> build.pc, preset |-> build.preset, m |-> build.m, todo |-> build.todo \ {p},
           hashed |-> FALSE, package |-> package, trace |-> trace,
           compiled |-> build.compiled, shipped |-> build.shipped]
  BY DEF PayloadIInv, IsBuild, Install, Step
<1>2. DOMAIN package = {line[2] : line \in trace}
  <2>1. DOMAIN package = DOMAIN build.package \cup {Destination(p)}
    OBVIOUS
  <2>2. {line[2] : line \in trace} = {line[2] : line \in build.trace} \cup {Destination(p)}
    <3>1. <<p, Destination(p)>>[2] = Destination(p)
      OBVIOUS
    <3> QED BY <3>1
  <2> QED BY <2>1, <2>2 DEF PayloadIInv, TraceInv
<1>3. TraceInv'
  BY <1>1, <1>2 DEF TraceInv
<1> HIDE DEF package, trace
<1>4. SourceInv'
  BY <1>1, SameTrees
<1>5. IsBuild' /\ SelectionInv'
  BY <1>1 DEF PayloadIInv, IsBuild, SelectionInv
<1> QED BY <1>3, <1>4, <1>5 DEF PayloadIInv

\* The verification leaves exactly the selection of the manifest it has read.
LEMMA VerifyKeeps ==
  ASSUME PayloadIInv, VerifyTrace, UNCHANGED <<patches, edited>>
  PROVE  PayloadIInv'
<1>1. CASE build' = [build EXCEPT !.pc = "failed"]
  BY <1>1, MovesOn
<1>2. CASE /\ \A line \in build.trace : LineHolds(line)
           /\ CoversSelection
           /\ build' = [build EXCEPT !.pc = "ship", !.m = manifest]
  <2>1. build' = [pc |-> "ship", preset |-> build.preset, m |-> manifest, todo |-> build.todo,
           hashed |-> build.hashed, package |-> build.package, trace |-> build.trace,
           compiled |-> build.compiled, shipped |-> build.shipped]
    BY <1>2 DEF PayloadIInv, IsBuild
  <2>2. IsBuild' /\ TraceInv' /\ PatchesInv'
    BY <2>1 DEF PayloadIInv, IsBuild, TraceInv, PatchesInv
  <2>7. build.pc = "verify"
    BY DEF VerifyTrace, At
  <2>8. CompiledInv'
    BY <2>1, <2>7 DEF PayloadIInv, IsTree, Follows, Missing
  <2>9. ShippedInv'
    BY <2>1, <2>7 DEF PayloadIInv, IsTree, Follows, Missing, Finished, At
  <2>3. ASSUME NEW p \in Selection(manifest, build.preset)
        PROVE  \E line \in build.trace : line[1] = p /\ line[2] = Destination(p)
    BY <1>2, <2>3 DEF CoversSelection, LineHolds
  <2>4. {line[2] : line \in build.trace} = {Destination(p) : p \in Selection(manifest, build.preset)}
    <3>1. ASSUME NEW line \in build.trace
          PROVE  line[2] \in {Destination(p) : p \in Selection(manifest, build.preset)}
      BY <1>2, <3>1 DEF CoversSelection, LineHolds
    <3> QED BY <2>3, <3>1
  <2>5. \A p \in Selection(manifest, build.preset) : build.package[Destination(p)] = manifest[p]
    BY <1>2, <2>3 DEF LineHolds
  <2>6. SelectionInv'
    BY <2>1, <2>4, <2>5 DEF SelectionInv, PayloadIInv, TraceInv
  <2> QED BY <2>2, <2>6, <2>8, <2>9 DEF PayloadIInv
<1> QED BY <1>1, <1>2 DEF VerifyTrace, Step, Proceed

\* A step of the build in front of the compilation.
LEMMA BeforeTrees ==
  ASSUME PayloadIInv, UNCHANGED <<patches, edited>>, NEW to, to \in {"validate", "compare"},
         NEW m, NEW todo, build' = [build EXCEPT !.pc = to, !.m = m, !.todo = todo]
  PROVE  PayloadIInv'
<1>1. build' = [pc |-> to, preset |-> build.preset, m |-> m, todo |-> todo,
           hashed |-> build.hashed, package |-> build.package, trace |-> build.trace,
           compiled |-> build.compiled, shipped |-> build.shipped]
  BY DEF PayloadIInv, IsBuild
<1>2. PatchesInv'
  BY DEF PayloadIInv, PatchesInv
<1> QED BY <1>1, <1>2 DEF PayloadIInv, IsBuild, TraceInv, SelectionInv, Finished, At

LEMMA PayloadNextIInv == PayloadIInv /\ [PayloadNext]_payloadVars => PayloadIInv'
<1> SUFFICES ASSUME PayloadIInv, [PayloadNext]_payloadVars PROVE PayloadIInv'
  OBVIOUS
<1>0. CASE UNCHANGED <<build, patches, edited>>
  <2>1. SourceInv'
    BY <1>0, SameTrees
  <2> QED BY <1>0, <2>1 DEF PayloadIInv, IsBuild, TraceInv, SelectionInv
<1>1. CASE BuildAgain
  BY <1>1, FreshKeeps DEF BuildAgain, Step, shared
<1>2. CASE KillBuild
  BY <1>2, MovesOn DEF KillBuild, Proceed, Step, shared
<1>3. CASE BuildStep
  <2>p. UNCHANGED patches
    BY <1>3 DEF BuildStep, shared
  <2>4. CASE PatchCompiled
    BY <2>p, <2>4, PatchCompiledKeeps
  <2>u. CASE UNCHANGED edited
    <3>f. CASE Proceed("failed")
      BY <2>p, <2>u, <3>f, MovesOn DEF Proceed, Step
    <3>1. CASE Census
      <4>1. CASE Step([build EXCEPT !.pc = "compare", !.m = manifest, !.todo = DOMAIN manifest])
        BY <2>p, <2>u, <4>1, BeforeTrees DEF Step
      <4> QED BY <3>1, <3>f, <4>1 DEF Census
    <3>2. CASE Compare
      <4>1. CASE Step([build EXCEPT !.todo = @ \ {Entry}])
        <5>1. build' = [build EXCEPT !.pc = "compare", !.m = build.m, !.todo = build.todo \ {Entry}]
          BY <3>2, <4>1 DEF Compare, At, Step, PayloadIInv, IsBuild
        <5> QED BY <2>p, <2>u, <5>1, BeforeTrees
      <4> QED BY <3>2, <3>f, <4>1 DEF Compare
    <3>3. CASE Validated \/ CheckSnapshot
      BY <2>p, <2>u, <3>3, MovesOn DEF Validated, CheckSnapshot, Proceed, Step, At
    <3>4. CASE Compile
      <4>1. build' = [pc |-> "derive", preset |-> build.preset, m |-> build.m, todo |-> build.todo,
             hashed |-> build.hashed, package |-> build.package, trace |-> build.trace,
             compiled |-> Unpacked(ostage.snapshot), shipped |-> build.shipped]
        BY <3>4 DEF Compile, Step, PayloadIInv, IsBuild
      <4>2. CompiledInv'
        <5>1. IsTree(Unpacked(ostage.snapshot)) /\ \A p \in Late : Unpacked(ostage.snapshot).fixes[p] = Unapplied
          BY UnpackedTree DEF Unpacked
        <5> QED BY <4>1, <5>1 DEF IsTree, Follows
      <4>3. PatchesInv'
        BY <2>p DEF PayloadIInv, PatchesInv
      <4> QED BY <4>1, <4>2, <4>3 DEF PayloadIInv, IsBuild, TraceInv, SelectionInv, Finished, At
    <3>5. CASE DeriveCompiled
      BY <2>p, <2>u, <3>5, MovesOn DEF DeriveCompiled, Derive, Proceed, Step, At
    <3>6. CASE CheckCompiled
      <4>1. build.pc = "patch" /\ build.compiled.source = Reviewed /\ Missing(build.compiled) = {}
        BY <3>6 DEF CheckCompiled, At, PayloadIInv
      <4> QED BY <2>p, <2>u, <3>6, <3>f, <4>1, MovesOn DEF CheckCompiled, Proceed, Step
    <3>7. CASE UnpackShipped
      <4>1. build' = [pc |-> "materialize", preset |-> build.preset, m |-> build.m, todo |-> build.todo,
             hashed |-> build.hashed, package |-> build.package, trace |-> build.trace,
             compiled |-> build.compiled, shipped |-> Unpacked(ostage.snapshot)]
        BY <3>7 DEF UnpackShipped, Step, PayloadIInv, IsBuild
      <4>2. build.pc = "package"
        BY <3>7 DEF UnpackShipped, At
      <4>3. CompiledInv' /\ PatchesInv'
        BY <2>p, <2>u, <4>1, <4>2 DEF PayloadIInv, IsTree, Follows, Missing, PatchesInv
      <4>4. ShippedInv'
        <5>1. IsTree(Unpacked(ostage.snapshot)) /\ \A p \in Late : Unpacked(ostage.snapshot).fixes[p] = Unapplied
          BY UnpackedTree DEF Unpacked
        <5> QED BY <4>1, <5>1 DEF IsTree, Follows, Finished, At
      <4> QED BY <4>1, <4>3, <4>4 DEF PayloadIInv, IsBuild, TraceInv, SelectionInv
    <3>8. CASE StartMaterialize
      <4>1. CASE Step([build EXCEPT !.pc = "install", !.m = manifest,
                               !.todo = Selection(manifest, build.preset)])
        <5>1. build' = [pc |-> "install", preset |-> build.preset, m |-> manifest,
             todo |-> Selection(manifest, build.preset),
             hashed |-> build.hashed, package |-> build.package, trace |-> build.trace,
             compiled |-> build.compiled, shipped |-> build.shipped]
          BY <4>1 DEF PayloadIInv, IsBuild, Step
        <5>2. build.pc = "materialize"
          BY <3>8 DEF StartMaterialize, At
        <5>3. CompiledInv' /\ PatchesInv'
          BY <2>p, <2>u, <5>1, <5>2 DEF PayloadIInv, IsTree, Follows, Missing, PatchesInv
        <5>4. ShippedInv'
          BY <2>p, <2>u, <5>1, <5>2 DEF PayloadIInv, IsTree, Follows, Missing, Finished, At
        <5> QED BY <5>1, <5>3, <5>4 DEF PayloadIInv, IsBuild, TraceInv, SelectionInv
      <4> QED BY <3>8, <3>f, <4>1 DEF StartMaterialize
    <3>9. CASE InstallLink \/ CopySource
      BY <2>p, <2>u, <3>9, <3>f, InstallKeeps DEF InstallLink, CopySource, Installing, At
    <3>10. CASE HashSource
      <4>1. CASE Step([build EXCEPT !.hashed = TRUE])
        <5>1. build' = [pc |-> build.pc, preset |-> build.preset, m |-> build.m, todo |-> build.todo,
             hashed |-> TRUE, package |-> build.package, trace |-> build.trace,
             compiled |-> build.compiled, shipped |-> build.shipped]
          BY <4>1 DEF PayloadIInv, IsBuild, Step
        <5>2. SourceInv'
          BY <2>p, <2>u, <5>1, SameTrees
        <5> QED BY <5>1, <5>2 DEF PayloadIInv, IsBuild, TraceInv, SelectionInv
      <4> QED BY <3>10, <3>f, <4>1 DEF HashSource
    <3>11. CASE WriteTrace
      <4>1. build.pc = "install" /\ build.compiled.source = Reviewed /\ Missing(build.compiled) = {}
        BY <3>11 DEF WriteTrace, At, PayloadIInv
      <4> QED BY <2>p, <2>u, <3>11, <4>1, MovesOn DEF WriteTrace, Proceed, Step
    <3>12. CASE VerifyTrace
      BY <2>p, <2>u, <3>12, VerifyKeeps
    <3>13. CASE DeriveShipped
      <4>1. build.pc = "ship" /\ build.compiled.source = Reviewed /\ Missing(build.compiled) = {}
        BY <3>13 DEF DeriveShipped, At, PayloadIInv
      <4>2. CASE build.shipped.source = Reviewed /\ Proceed("patch_shipped")
        BY <2>p, <2>u, <4>1, <4>2, MovesOn DEF Proceed, Step
      <4> QED BY <3>13, <3>f, <4>2 DEF DeriveShipped, Derive
    <3>14. CASE PatchShipped
      BY <2>p, <2>u, <3>14, PatchShippedKeeps
    <3>15. CASE CheckShipped
      <4>1. /\ build.pc = "patch_shipped" /\ Missing(build.shipped) = {}
            /\ build.compiled.source = Reviewed /\ Missing(build.compiled) = {}
            /\ build.shipped.source = Reviewed
        BY <3>15 DEF CheckShipped, ToPatch, At, PayloadIInv
      <4>2. CASE Proceed("built")
        BY <2>p, <2>u, <4>1, <4>2, MovesOn DEF Proceed, Step
      <4> QED BY <3>15, <3>f, <4>2 DEF CheckShipped
    <3> QED BY <1>3, <2>4, <3>1, <3>2, <3>3, <3>4, <3>5, <3>6, <3>7, <3>8, <3>9, <3>10, <3>11,
               <3>12, <3>13, <3>14, <3>15 DEF BuildStep
  <2> QED BY <1>3, <2>4, <2>u DEF BuildStep, Compile, DeriveCompiled, CheckCompiled
<1>4. CASE GeneratorStep \/ GenerateAgain \/ KillGenerator
  BY <1>0, <1>4 DEF GeneratorStep, GenerateAgain, KillGenerator, shared
<1>5. CASE Others
  <2>1. UNCHANGED build
    BY <1>5 DEF Others, Changed
  <2>2. CASE EditPatch
    BY <2>1, <2>2, EditKeeps
  <2>3. CASE NewList \/ NewSidecar \/ MoveAway \/ MoveIn \/ Touch \/ Republish
    BY <1>0, <2>1, <2>3 DEF NewList, NewSidecar, MoveAway, MoveIn, Touch, Republish
  <2> QED BY <1>5, <2>2, <2>3 DEF Others
<1> QED BY <1>0, <1>1, <1>2, <1>3, <1>4, <1>5 DEF PayloadNext, payloadVars

LEMMA PayloadInvariant == PayloadSpec => []PayloadIInv
<1>1. PayloadInit => PayloadIInv
  BY PayloadInitIInv
<1>2. PayloadIInv /\ [PayloadNext]_payloadVars => PayloadIInv'
  BY PayloadNextIInv
<1> QED BY <1>1, <1>2, PTL DEF PayloadSpec

\* For any lists, policies and presets: the package of a finished build holds
\* exactly what the manifest of its verification selects (verify_trace).
THEOREM PackageIsTheSelection == PayloadSpec => []ShipsTheSelection
<1>1. PayloadIInv => ShipsTheSelection
  BY DEF PayloadIInv, SelectionInv, ShipsTheSelection, Finished, At
<1> QED BY <1>1, PayloadInvariant, PTL

\* For any generations of the kernel sources, any republications and any edits
\* of the patches: the sources in the package of a finished build are of the
\* reviewed generation, as the compiled ones were, with every patch in an
\* edition that applies, and in the edition the compiled ones got unless the
\* patch was edited since (build-driver.sh, derive_fantgpu_source).
THEOREM ShippedIsCompiled == PayloadSpec => []ShipsWhatWasCompiled
<1>1. PayloadIInv => ShipsWhatWasCompiled
  <2> SUFFICES ASSUME PayloadIInv, Finished PROVE ShipsWhatWasCompiled
    BY DEF ShipsWhatWasCompiled
  <2>1. build.pc = "built"
    BY DEF Finished, At
  <2>2. /\ build.compiled.source = Reviewed /\ build.shipped.source = Reviewed
        /\ Missing(build.compiled) = {} /\ Missing(build.shipped) = {}
        /\ Follows(build.compiled, patches) /\ Follows(build.shipped, build.compiled.fixes)
    BY <2>1 DEF PayloadIInv
  <2> QED BY <2>2 DEF ShipsWhatWasCompiled, Missing, Follows
<1> QED BY <1>1, PayloadInvariant, PTL

(***************************************************************************)
(* The restore of the vendor tree.                                         *)
(***************************************************************************)

(***************************************************************************)
(* The inductive invariant: what each journal state says of the trees, and *)
(* what the program knows at each of its places.                           *)
(***************************************************************************)
\* The old tree is where it was, or away with the new one ready.
OldAway == (C /\ ~O) \/ (~C /\ T /\ O)

Scene ==
  /\ jstate = "none" => ~O
  /\ jstate = "staged" => ~O /\ (C <=> jpre)
  /\ jstate = "moving_old" => jpre /\ OldAway
  /\ jstate = "moved_old" => jpre /\ OldAway
  /\ jstate = "moving_new" /\ jpre => (C /\ ~(T /\ O)) \/ (~C /\ T /\ O)
  /\ jstate = "moving_new" /\ ~jpre => ~O /\ ~(C /\ T)
  /\ jstate = "committed" => C /\ ~T /\ (O => jpre)

Survival ==
  /\ hadTree => C \/ O
  /\ ~C /\ O => Complete(old)
  /\ (hadTree /\ pc \in {"w_staged", "w_moving_new", "mv_new"}) => pre
  /\ C \/ O => hadTree

Place ==
  /\ inrun => pc \in {"scan", "s_rename", "s_txn", "s_old", "s_journal"}
  /\ exit = "pass" => pc = "idle"
  /\ pc = "s_rename" => PutBack /\ old = "valid"
  /\ pc = "s_txn" => DropTxn \/ KeepCurrent \/ jstate = "none"
  /\ pc = "s_old" => KeepNew /\ cur = "valid"
  /\ pc = "s_journal" => ~T /\ ~O
  /\ pc = "extract" => jstate = "none" /\ ~T /\ ~O
  /\ pc = "w_staged" => jstate = "none" /\ ~O /\ (pre <=> C)
  /\ pc = "w_moving_old" => jstate = "staged" /\ pre /\ jpre /\ C /\ ~O
  /\ pc = "mv_old" => jstate = "moving_old" /\ pre /\ C /\ ~O
  /\ pc = "w_moved_old" => jstate = "moving_old" /\ pre /\ ~C /\ O
  /\ pc = "w_moving_new" => ~C /\ (pre <=> O) /\ (pre <=> jpre)
                             /\ jstate = (IF pre THEN "moved_old" ELSE "staged")
  /\ pc = "mv_new" => ~C /\ (pre <=> O) /\ (pre <=> jpre) /\ jstate = "moving_new"
  /\ pc = "w_committed" => cur = "valid" /\ ~T /\ (pre <=> O) /\ (pre <=> jpre)
                            /\ jstate = "moving_new"
  /\ pc = "c_old" => jstate = "committed" /\ cur = "valid" /\ (O => jpre)
  /\ pc = "c_journal" => jstate = "committed" /\ cur = "valid" /\ ~O
  /\ (pc \in {"w_staged", "w_moving_old", "mv_old", "w_moved_old", "w_moving_new", "mv_new"}
        => txn = "valid")

IInv == TypeOK /\ Scene /\ Survival /\ Place /\ PassMeansValid

USE DEF Pcs, Exits, States, Trees, C, T, O

LEMMA InitIInv == Init => IInv
<1> SUFFICES ASSUME Init PROVE IInv
  OBVIOUS
<1>1. hadTree \in BOOLEAN /\ (hadTree <=> C)
  BY Zenon DEF Init
<1>2. TypeOK
  BY <1>1, InitAssumption DEF Init, TypeOK
<1>3. Scene
  BY DEF Init, Scene
<1>4. Survival /\ Place /\ PassMeansValid
  BY <1>1 DEF Init, Survival, Place, PassMeansValid
<1> QED
  BY <1>2, <1>3, <1>4 DEF IInv

LEMMA StepIInv == IInv /\ [Next]_vars => IInv'
<1> SUFFICES ASSUME IInv, [Next]_vars PROVE IInv'
  OBVIOUS
<1> USE FaultAssumption DEF IInv, TypeOK, Scene, Survival, Place, PassMeansValid,
        OldAway, Complete, trees, journal, Fault, NoFault, Goto, End
<1>g. GiveUp => pc' = "idle" /\ exit' \in {"recovered", "refused"} /\ pre' = FALSE /\ inrun' = FALSE
        /\ UNCHANGED hadTree
  BY DEF GiveUp
<1>e. \A t, x : x \in Eaten(t) => x = t \/ (t # "none" /\ x = "partial")
  BY DEF Eaten
<1>1. CASE Start
  BY <1>1 DEF Start
<1>2. CASE Drift
  BY <1>2 DEF Drift
<1>3. CASE ScanNoJournal
  BY <1>3 DEF ScanNoJournal
<1>4. CASE ScanJournal
  <2>1. CASE DropTxn /\ Goto("s_txn")
    BY <1>4, <2>1 DEF ScanJournal, DropTxn, KeepCurrent, PutBack, KeepNew
  <2>2. CASE PutBack /\ old = "valid" /\ Goto("s_rename")
    BY <1>4, <2>2 DEF ScanJournal, DropTxn, KeepCurrent, PutBack, KeepNew
  <2>3. CASE KeepCurrent /\ cur = "valid" /\ Goto("s_txn")
    BY <1>4, <2>3 DEF ScanJournal, DropTxn, KeepCurrent, PutBack, KeepNew
  <2>4. CASE KeepNew /\ cur = "valid" /\ Goto("s_old")
    BY <1>4, <2>4 DEF ScanJournal, DropTxn, KeepCurrent, PutBack, KeepNew
  <2> QED BY <1>4, <2>1, <2>2, <2>3, <2>4 DEF ScanJournal
<1>5. CASE ScanRefuses
  <2>1. GiveUp /\ UNCHANGED <<cur, txn, old, jstate, jpre, faults>>
    BY <1>5 DEF ScanRefuses
  <2>2. TypeOK'
    BY <2>1, <1>g
  <2>3. Scene'
    BY <2>1
  <2>4. Survival'
    BY <2>1, <1>g
  <2>5. Place'
    BY <2>1, <1>g
  <2>6. PassMeansValid'
    BY <2>1, <1>g
  <2> QED BY <2>2, <2>3, <2>4, <2>5, <2>6
<1>6. CASE ScanRename
  <2>1. TypeOK'
    BY <1>6 DEF ScanRename, PutBack, KeepCurrent, DropTxn
  <2>2. Scene'
    BY <1>6 DEF ScanRename, PutBack, KeepCurrent, DropTxn
  <2>3. Survival'
    BY <1>6 DEF ScanRename, PutBack, KeepCurrent, DropTxn
  <2>4. Place'
    BY <1>6 DEF ScanRename, PutBack, KeepCurrent, DropTxn
  <2>5. PassMeansValid'
    BY <1>6 DEF ScanRename, PutBack, KeepCurrent, DropTxn
  <2> QED BY <2>1, <2>2, <2>3, <2>4, <2>5
<1>7. CASE ScanDelete
  BY <1>7 DEF ScanDelete, DropTxn, PutBack, KeepCurrent, KeepNew
<1>8. CASE ScanUnlink
  BY <1>8 DEF ScanUnlink
<1>9. CASE ScanFails
  <2>1. TypeOK'
    <3>1. faults' \in Nat
      BY <1>9 DEF ScanFails
    <3>2. cur' = cur /\ txn' \in {"none", "valid", "partial"} /\ old' \in Trees
      BY <1>9, <1>e DEF ScanFails
    <3>3. UNCHANGED <<jstate, jpre, hadTree>>
      BY <1>9, <1>g DEF ScanFails
    <3>4. pc' = "idle" /\ inrun' = FALSE /\ pre' = FALSE /\ exit' \in Exits
      BY <1>9, <1>g DEF ScanFails
    <3> QED BY <3>1, <3>2, <3>3, <3>4
  <2>2. Scene'
    BY <1>9, <1>e, <1>g DEF ScanFails, DropTxn, PutBack, KeepCurrent, KeepNew
  <2>3. Survival'
    BY <1>9, <1>e, <1>g DEF ScanFails, DropTxn, PutBack, KeepCurrent, KeepNew
  <2>4. Place'
    BY <1>9, <1>e, <1>g DEF ScanFails, DropTxn, PutBack, KeepCurrent, KeepNew
  <2>5. PassMeansValid'
    BY <1>9, <1>e, <1>g DEF ScanFails, DropTxn, PutBack, KeepCurrent, KeepNew
  <2> QED BY <2>1, <2>2, <2>3, <2>4, <2>5
<1>10. CASE Extract
  <2>1. pre' \in BOOLEAN /\ (pre' <=> C)
    BY <1>10, Zenon DEF Extract
  <2> QED BY <1>10, <2>1 DEF Extract
<1>11. CASE ExtractFails
  <2>1. TypeOK'
    <3>1. faults' \in Nat
      BY <1>11 DEF ExtractFails
    <3>2. cur' = cur /\ txn' \in {"none", "valid", "partial"} /\ old' \in Trees
      BY <1>11 DEF ExtractFails
    <3>3. UNCHANGED <<jstate, jpre, hadTree>>
      BY <1>11 DEF ExtractFails
    <3>4. pc' = "idle" /\ inrun' = FALSE /\ pre' = FALSE /\ exit' \in Exits
      BY <1>11 DEF ExtractFails
    <3> QED BY <3>1, <3>2, <3>3, <3>4
  <2>2. Scene' /\ Survival'
    BY <1>11 DEF ExtractFails
  <2>3. Place' /\ PassMeansValid'
    BY <1>11 DEF ExtractFails
  <2> QED BY <2>1, <2>2, <2>3
<1>12. CASE WriteJournal
  <2>1. TypeOK'
    BY <1>12 DEF WriteJournal, Journal
  <2>2. Scene'
    BY <1>12 DEF WriteJournal, Journal
  <2>3. Survival'
    BY <1>12 DEF WriteJournal, Journal
  <2>4. Place'
    BY <1>12 DEF WriteJournal, Journal
  <2>5. PassMeansValid'
    BY <1>12 DEF WriteJournal, Journal
  <2> QED BY <2>1, <2>2, <2>3, <2>4, <2>5
<1>13. CASE Move
  BY <1>13 DEF Move
<1>14. CASE CommitFails
  BY <1>14 DEF CommitFails
<1>15. CASE CleanOld
  BY <1>15 DEF CleanOld
<1>16. CASE CleanJournal
  BY <1>16 DEF CleanJournal
<1>17. CASE CleanFails
  <2>1. TypeOK'
    <3>1. faults' \in Nat
      BY <1>17 DEF CleanFails
    <3>2. cur' = cur /\ txn' \in {"none", "valid", "partial"} /\ old' \in Trees
      BY <1>17, <1>e DEF CleanFails
    <3>3. UNCHANGED <<jstate, jpre, hadTree>>
      BY <1>17 DEF CleanFails
    <3>4. pc' = "idle" /\ inrun' = FALSE /\ pre' = FALSE /\ exit' \in Exits
      BY <1>17 DEF CleanFails
    <3> QED BY <3>1, <3>2, <3>3, <3>4
  <2>2. Scene'
    BY <1>17, <1>e DEF CleanFails
  <2>3. Survival'
    BY <1>17, <1>e DEF CleanFails
  <2>4. Place'
    BY <1>17, <1>e DEF CleanFails
  <2>5. PassMeansValid'
    BY <1>17, <1>e DEF CleanFails
  <2> QED BY <2>1, <2>2, <2>3, <2>4, <2>5
<1>18. CASE Crash
  <2>1. TypeOK'
    <3>1. faults' \in Nat
      BY <1>18 DEF Crash
    <3>2. cur' = cur /\ txn' \in {"none", "valid", "partial"} /\ old' \in Trees
      BY <1>18, <1>e DEF Crash
    <3>3. UNCHANGED <<jstate, jpre, hadTree>>
      BY <1>18 DEF Crash
    <3>4. pc' = "idle" /\ inrun' = FALSE /\ pre' = FALSE /\ exit' \in Exits
      BY <1>18 DEF Crash
    <3> QED BY <3>1, <3>2, <3>3, <3>4
  <2>2. Scene'
    BY <1>18, <1>e DEF Crash, DropTxn, PutBack, KeepCurrent, KeepNew
  <2>3. Survival'
    BY <1>18, <1>e DEF Crash, DropTxn, PutBack, KeepCurrent, KeepNew
  <2>4. Place'
    BY <1>18, <1>e DEF Crash, DropTxn, PutBack, KeepCurrent, KeepNew
  <2>5. PassMeansValid'
    BY <1>18, <1>e DEF Crash, DropTxn, PutBack, KeepCurrent, KeepNew
  <2> QED BY <2>1, <2>2, <2>3, <2>4, <2>5
<1>19. CASE UNCHANGED vars
  BY <1>19 DEF vars, DropTxn, PutBack, KeepCurrent, KeepNew
<1> QED
  BY <1>1, <1>2, <1>3, <1>4, <1>5, <1>6, <1>7, <1>8, <1>9, <1>10, <1>11, <1>12,
     <1>13, <1>14, <1>15, <1>16, <1>17, <1>18, <1>19 DEF Next, Run, Failures

\* Of every scene the invariant admits the scan finds the row.
LEMMA SceneInTable == IInv => ScanExplainsScene
BY DEF IInv, TypeOK, Scene, OldAway, ScanExplainsScene, InTable, DropTxn, PutBack,
   KeepCurrent, KeepNew

LEMMA InvariantHolds == Spec => []IInv
<1>1. Init => IInv
  BY InitIInv
<1>2. IInv /\ [Next]_vars => IInv'
  BY StepIInv
<1> QED
  BY <1>1, <1>2, PTL DEF Spec

\* Every state of a run of the restore has its type.
THEOREM TypeCorrect == Spec => []TypeOK
<1>1. IInv => TypeOK
  BY DEF IInv
<1> QED
  BY <1>1, InvariantHolds, PTL

\* Whatever fails and wherever the process dies, a complete vendor tree is
\* left, in its place or as the old tree of the transaction.
THEOREM VendorTreeSurvives == Spec => []TreeSurvives
<1>1. IInv => TreeSurvives
  BY DEF IInv, TypeOK, Survival, TreeSurvives, Complete
<1> QED
  BY <1>1, InvariantHolds, PTL

\* The truth table of _restore_scan is complete: each scene a killed or failed
\* run can leave has its row.
THEOREM TableIsComplete == Spec => []ScanExplainsScene
<1> QED
  BY SceneInTable, InvariantHolds, PTL

\* A run that passes leaves the tree of the manifest.
THEOREM PassIsValid == Spec => []PassMeansValid
<1>1. IInv => PassMeansValid
  BY DEF IInv
<1> QED
  BY <1>1, InvariantHolds, PTL
=============================================================================
