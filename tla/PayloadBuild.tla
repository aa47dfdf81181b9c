----------------------------- MODULE PayloadBuild ----------------------------
(***************************************************************************)
(* A build of the driver package (the F branch of build-driver.sh) with    *)
(* the tools it calls: the validation of the vendor tree against the       *)
(* manifest, the compilation of the kernel sources, and, a long time       *)
(* later, the materialisation of the payload into the package with its     *)
(* trace, and the verification of the trace.  Every tool reads the         *)
(* manifest, the tree and the snapshot anew, and the patches of the        *)
(* checkout are read once for each of the two source trees.  The stage is  *)
(* private to the build and is made anew for each.                         *)
(***************************************************************************)
EXTENDS PayloadManifest

Presets == [abi : Abis, ucm : {"ucm", "ucm2"}, wayland : {"on", "off"}]

DefaultPreset == [abi |-> "1.21", ucm |-> "ucm2", wayland |-> "off"]

\* A source tree: the generation it was unpacked from and what is applied.
NoTree == {}
Unpacked(source) == [source |-> source, fixes |-> [p \in Late |-> Unapplied]]

Fresh(preset) ==
  [pc |-> "validate", preset |-> preset, m |-> NoFiles, todo |-> {}, hashed |-> FALSE,
   package |-> NoFiles, trace |-> {}, compiled |-> NoTree, shipped |-> NoTree]

Step(to) == build' = to
Proceed(pc) == Step([build EXCEPT !.pc = pc])
At(pc) == build.pc = pc
\* Entries are taken in one and the same order.
Entry == CHOOSE p \in build.todo : TRUE

Readable == manifest # NoFiles

(***************************************************************************)
(* validate-binary-manifest-fantgpu.py: the census of the tree, then each  *)
(* file.                                                                   *)
(***************************************************************************)
Census ==
  /\ At("validate")
  /\ IF Readable /\ DOMAIN vendor = DOMAIN manifest
     THEN Step([build EXCEPT !.pc = "compare", !.m = manifest, !.todo = DOMAIN manifest])
     ELSE Proceed("failed")

Compare ==
  /\ At("compare") /\ build.todo # {}
  /\ IF Entry \in DOMAIN vendor /\ vendor[Entry] = build.m[Entry]
     THEN Step([build EXCEPT !.todo = @ \ {Entry}])
     ELSE Proceed("failed")

Validated ==
  /\ At("compare") /\ build.todo = {}
  /\ Proceed(IF DOMAIN vendor \cap Forbidden = {} THEN "snapshot" ELSE "failed")

(***************************************************************************)
(* The kernel sources: the snapshot is checked and unpacked for the        *)
(* compilation, and unpacked a second time for the package.                *)
(***************************************************************************)
CheckSnapshot ==
  /\ At("snapshot")
  /\ Proceed(IF ostage.snapshot = Reviewed THEN "unpack" ELSE "failed")

\* derive_fantgpu_source compares the tree before it changes it, and the
\* result, with one patch applied, after it.
Derive(tree, next) ==
  Proceed(IF tree.source = Reviewed /\ patches[Gated] = ReviewedEdition THEN next ELSE "failed")

\* The other patches come on top, one after the other; a patch that does not
\* apply ends the build.
Missing(tree) == {p \in Late : tree.fixes[p] = Unapplied}
NextPatch(missing) == CHOOSE p \in missing : TRUE
Patched(tree, p) == [tree EXCEPT !.fixes = [@ EXCEPT ![p] = patches[p]]]
MarksFound(tree, marks) == \A p \in marks : tree.fixes[p] \in Marked

Compile ==
  /\ At("unpack") /\ Step([build EXCEPT !.pc = "derive", !.compiled = Unpacked(ostage.snapshot)])
  /\ UNCHANGED edited
DeriveCompiled == At("derive") /\ Derive(build.compiled, "patch") /\ UNCHANGED edited
PatchCompiled ==
  /\ At("patch") /\ Missing(build.compiled) # {}
  /\ LET p == NextPatch(Missing(build.compiled))
     IN /\ IF patches[p] \in Applying
           THEN Step([build EXCEPT !.compiled = Patched(@, p)])
           ELSE Proceed("failed")
        /\ edited' = edited \ {p}

\* The searches for the marks, make, and the checks of the module.
CheckCompiled ==
  /\ At("patch") /\ Missing(build.compiled) = {}
  /\ Proceed(IF /\ MarksFound(build.compiled, MarksBuilt)
                /\ \A p \in Late : build.compiled.fixes[p] \in Building
             THEN "package" ELSE "failed")
  /\ UNCHANGED edited
UnpackShipped ==
  /\ At("package")
  /\ Step([build EXCEPT !.pc = "materialize", !.shipped = Unpacked(ostage.snapshot)])

(***************************************************************************)
(* materialize: the manifest is read, each selected entry is looked up,    *)
(* hashed and copied (a link is made from the manifest); the trace is      *)
(* written at the end.                                                     *)
(***************************************************************************)
\* The DDX variants come from several paths and go to one destination.
Install(p, content) ==
  Step([build EXCEPT
    !.hashed = FALSE, !.todo = @ \ {p}, !.trace = @ \cup {<<p, Destination(p)>>},
    !.package = [d \in DOMAIN @ \cup {Destination(p)} |->
                   IF d = Destination(p) THEN content ELSE @[d]]])

StartMaterialize ==
  /\ At("materialize")
  /\ IF ~Readable
     THEN Proceed("failed")
     ELSE Step([build EXCEPT !.pc = "install", !.m = manifest,
                             !.todo = Selection(manifest, build.preset)])

Installing == At("install") /\ build.todo # {}

InstallLink ==
  /\ Installing /\ Entry \in Links
  /\ IF Entry \in DOMAIN vendor THEN Install(Entry, build.m[Entry]) ELSE Proceed("failed")

HashSource ==
  /\ Installing /\ Entry \notin Links /\ ~build.hashed
  /\ IF Entry \in DOMAIN vendor /\ vendor[Entry] = build.m[Entry]
     THEN Step([build EXCEPT !.hashed = TRUE])
     ELSE Proceed("failed")

CopySource ==
  /\ Installing /\ build.hashed
  /\ IF Entry \in DOMAIN vendor THEN Install(Entry, vendor[Entry]) ELSE Proceed("failed")

WriteTrace ==
  /\ At("install") /\ build.todo = {} /\ Proceed("verify")

(***************************************************************************)
(* verify_trace: the manifest and the rows of the kernel sources are read  *)
(* again, each line is compared with them and with the package.            *)
(***************************************************************************)
LineHolds(line) ==
  LET p == line[1] IN
    /\ p \in DOMAIN manifest /\ Selected(p, build.preset) /\ line[2] = Destination(p)
    /\ line[2] \in DOMAIN build.package /\ build.package[line[2]] = manifest[p]
\* Mutant: the selection is always the one of the default preset.
CoversDefault == {line[1] : line \in build.trace} = Selection(manifest, DefaultPreset)
\* The rows of the kernel sources against the files of the package.
RowsHold == ostage.rows = build.shipped.source
CoversSelection == {line[1] : line \in build.trace} = Selection(manifest, build.preset)

\* Mutant: the lines are compared, but not which there should be.
VerifyLines ==
  /\ At("verify")
  /\ IF (\A line \in build.trace : LineHolds(line)) /\ RowsHold
     THEN Step([build EXCEPT !.pc = "ship", !.m = manifest])
     ELSE Proceed("failed")

VerifyTrace ==
  /\ At("verify")
  /\ IF /\ Readable /\ \A line \in build.trace : LineHolds(line)
        /\ CoversSelection /\ RowsHold
     THEN Step([build EXCEPT !.pc = "ship", !.m = manifest])
     ELSE Proceed("failed")

(***************************************************************************)
(* The sources in the package are derived and patched as the compiled ones *)
(* were, behind the verification of the trace; nothing compares them with  *)
(* the compiled ones.                                                      *)
(***************************************************************************)
DeriveShipped == At("ship") /\ Derive(build.shipped, "patch_shipped")
\* Mutant: a patch without a mark is forgotten for the package.
MarkedToPatch == Missing(build.shipped) \cap MarksShipped
ToPatch == Missing(build.shipped)
PatchShipped ==
  /\ At("patch_shipped") /\ ToPatch # {}
  /\ LET p == NextPatch(ToPatch)
     IN IF patches[p] \in Applying
        THEN Step([build EXCEPT !.shipped = Patched(@, p)])
        ELSE Proceed("failed")

CheckShipped ==
  /\ At("patch_shipped") /\ ToPatch = {}
  /\ Proceed(IF MarksFound(build.shipped, MarksShipped) THEN "built" ELSE "failed")

BuildStep ==
  /\ \/ Compile \/ DeriveCompiled \/ PatchCompiled \/ CheckCompiled
     \/ /\ \/ Census \/ Compare \/ Validated \/ CheckSnapshot \/ UnpackShipped
           \/ StartMaterialize \/ InstallLink \/ HashSource \/ CopySource \/ WriteTrace
           \/ VerifyTrace \/ DeriveShipped \/ PatchShipped \/ CheckShipped
        /\ UNCHANGED edited
  /\ UNCHANGED <<shared, manifest, generator, kills>>

BuildAgain ==
  /\ At("failed") /\ Step(Fresh(build.preset))
  /\ UNCHANGED <<shared, edited, manifest, generator, kills>>

KillBuild ==
  /\ ~At("failed") /\ ~At("built") /\ kills < MaxKills
  /\ kills' = kills + 1 /\ Proceed("failed")
  /\ UNCHANGED <<shared, edited, manifest, generator>>

PayloadInit ==
  /\ \E l \in Lists : list = [text |-> l, sum |-> l] /\ vendor = l
  /\ manifest = NoFiles /\ generator = GeneratorIdle
  /\ ostage = [snapshot |-> Reviewed, rows |-> Reviewed]
  /\ patches = [p \in Late \cup {Gated} |-> ReviewedEdition] /\ edited = {}
  /\ \E preset \in Presets : build = Fresh(preset)
  /\ changes = 0 /\ kills = 0

PayloadNext ==
  \/ GeneratorStep \/ GenerateAgain \/ KillGenerator
  \/ BuildStep \/ BuildAgain \/ KillBuild
  \/ Others

PayloadSpec == PayloadInit /\ [][PayloadNext]_payloadVars

PayloadTypeOK ==
  /\ {list.text, list.sum} \subseteq Lists /\ manifest \in Lists \cup {NoFiles}
  /\ build.preset \in Presets /\ build.todo \subseteq Paths
  /\ patches \in [Late \cup {Gated} -> Editions] /\ edited \subseteq Late
  /\ changes \in 0..MaxChanges /\ kills \in 0..MaxKills

(***************************************************************************)
(* A finished package holds what the manifest of its verification selects  *)
(* for its preset, each at its place with its content, and nothing else,   *)
(* whatever happened to the tree, the list and the manifest on the way.    *)
(***************************************************************************)
Finished == At("built")
ShipsTheSelection ==
  Finished =>
    /\ DOMAIN build.package = {Destination(p) : p \in Selection(build.m, build.preset)}
    /\ \A p \in Selection(build.m, build.preset) : build.package[Destination(p)] = build.m[p]

(***************************************************************************)
(* The sources in the package are those that the module was compiled from  *)
(* for the test: the reviewed generation with all the patches, in the same *)
(* editions, though both are unpacked and the patches read at two moments; *)
(* but for a patch that was edited in between.                             *)
(***************************************************************************)
ShipsWhatWasCompiled ==
  Finished =>
    /\ build.compiled.source = Reviewed /\ build.shipped.source = Reviewed
    /\ \A p \in Late : {build.compiled.fixes[p], build.shipped.fixes[p]} \subseteq Applying
    /\ \A p \in Late \ edited : build.shipped.fixes[p] = build.compiled.fixes[p]

(***************************************************************************)
(* What a comment of the builder says of the sources in the package: they  *)
(* are of the locked generation, and a patched state has to be covered by  *)
(* the locked evidence.  The patches behind the gate break it.             *)
(***************************************************************************)
PatchedStateIsLocked ==
  Finished => \A p \in Late : build.shipped.fixes[p] \in {Unapplied, ReviewedEdition}

(***************************************************************************)
(* When the inputs have come to rest and agree, a build ends well, however *)
(* the ones before it ended.                                               *)
(***************************************************************************)
Agree ==
  /\ manifest # NoFiles /\ vendor = manifest /\ DOMAIN vendor \cap Forbidden = {}
  /\ ostage = [snapshot |-> Reviewed, rows |-> Reviewed]
  /\ patches[Gated] = ReviewedEdition
  /\ \A p \in Late : patches[p] \in Applying \cap Building \cap Marked
BuildConverges == <>[]Agree => <>Finished
=============================================================================
