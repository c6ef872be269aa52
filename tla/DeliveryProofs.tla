--------------------------- MODULE DeliveryProofs ---------------------------
(***************************************************************************)
(* Proofs about Delivery, for any runs: any tapes, plans, barcodes, tools, *)
(* numbers of discs, length of names on a disc, faults and resumes.        *)
(***************************************************************************)
EXTENDS Delivery, FiniteSetTheorems, WellFoundedInduction, TLAPS

AtMostOne(S) == \A x, y \in S : x = y
Sequential(s) == \E S : s \in Seq(S)

\* A report of this run that names the discs ds.
TrueReport(r, ds) ==
    /\ r = [tapes |-> ReportTapes, discs |-> ds, generation |-> r.generation,
            device |-> r.device, identity |-> run.escrow, dryRun |-> run.dryRun]
    /\ r.generation \in {t.generation : t \in Range(run.written)} \cup {"mixed", "unknown"}
    /\ r.device \in Devices
    /\ r.generation \notin {"mixed", "unknown"} =>
         \A t \in Range(run.written) : t.generation = r.generation

\* No two tapes have one barcode.
BarcodesApart ==
    \A j, k \in DOMAIN run.written : run.written[j].barcode = run.written[k].barcode => j = k

\* The content of a disc is a whole kit of this run.
WholeKit(x) ==
    /\ BarcodesApart
    /\ \A k \in DOMAIN run.written : \E n \in DOMAIN x : x[n] = [indexOf |-> run.written[k].barcode]
    /\ \E n \in DOMAIN x : "report" \in DOMAIN x[n]
    /\ \A n \in DOMAIN x : "report" \in DOMAIN x[n] => TrueReport(x[n].report, <<>>)
    /\ \A n \in DOMAIN x : "sums" \in DOMAIN x[n] => x[n].sums = BuildSHA256Manifest
    /\ \A n \in DOMAIN x : n.dir = "bin" => x[n].kind = "static"
    /\ \E n \in DOMAIN x : n.dir = "bin"
    /\ \E n \in DOMAIN x : n.dir = "src"

-----------------------------------------------------------------------------
(* The inductive invariant *)

Burning == {"burn", "verify", "pause"}

\* The phases up to the one in which the report is rendered again.
Before == {"report", "rebuild"} \cup Burning

\* Where the attempts are in each phase, and how many discs it has.
FlowInv ==
    /\ run \in Runs /\ wf \in Before \cup {"deliver"} \cup Terminal
    /\ wf = "report" => at \in BuildSteps /\ discs = <<>>
    /\ wf \in Burning => at = Idle /\ Len(discs) < run.copies
    /\ wf = "rebuild" => at \in {"escrow", "render", "pdf"} /\ (at # "escrow" => old = Idle)
    /\ wf = "deliver" => at \in {"start", "post", "accepted"} /\ (old # Idle => discs = <<>>)
    /\ wf \in Terminal => at = Idle
    /\ wf \in {"rebuild", "deliver", "ok"} => Len(discs) = run.copies
    /\ old \in BuildSteps \cup {Idle} /\ overlapped \in BOOLEAN /\ (~overlapped => old = Idle)
    /\ Len(discs) <= run.copies
    /\ faults \in 0..MaxFaults /\ resumes \in 0..MaxResumes

\* Every report there is, is true, and one that may leave the system names the
\* discs; from the step that renders it on there is one.
ReportInv ==
    /\ AtMostOne(ren) /\ AtMostOne(oldRen) /\ AtMostOne(pdf)
    /\ wf \in {"report"} \cup Burning => \A r \in ren : TrueReport(r, <<>>)
    /\ wf \in {"rebuild", "deliver", "ok"} => \A r \in ren : TrueReport(r, RebuildDiscs)
    /\ wf \in Before => \A r \in pdf : TrueReport(r, <<>>)
    /\ wf = "deliver" => \A r \in pdf : TrueReport(r, RebuildDiscs)
    /\ wf \in Terminal => \A r \in ren \cup pdf : TrueReport(r, <<>>) \/ TrueReport(r, RebuildDiscs)
    /\ \A r \in oldRen : TrueReport(r, <<>>)
    /\ old \in {"pdf", "create", "build", "manifest"} => oldRen # {}
    /\ wf = "report" /\ at \in {"pdf", "create", "build", "manifest"} => ren # {}
    /\ wf = "rebuild" /\ at = "pdf" => ren # {}
    /\ wf = "deliver" /\ at = "post" => ren # {}
    /\ wf = "report" /\ at \in {"create", "build", "manifest"} => pdf # {}
    /\ wf \in Burning \cup {"rebuild", "deliver", "ok"} => pdf # {}

\* A manifest is that of a whole kit; an image and a manifest no lost attempt
\* came between are of the same one.
KitInv ==
    /\ AtMostOne(iso) /\ AtMostOne(man) /\ AtMostOne(tray.holds) /\ tray.overwrote \in BOOLEAN
    /\ \A m \in man : WholeKit(m)
    /\ (wf = "report" /\ at = "manifest") \/ old = "manifest" => Buildable
    /\ ~overlapped /\ wf = "report" /\ at = "manifest" => iso = {Image(r) : r \in ren}
    /\ ~overlapped /\ wf \in Burning => \E x \in iso : x \in man

DiscInv ==
    /\ Sequential(discs)
    /\ \A k \in DOMAIN discs : discs[k].overwrote \in BOOLEAN /\ \A x \in discs[k].holds : WholeKit(x)

\* Without the right identity no attempt gets past its first step.
EscrowInv ==
    run.escrow # "match" =>
        /\ wf \in {"report", "failed"} /\ at \in {"escrow", Idle} /\ old = Idle
        /\ pdf = {} /\ iso = {} /\ discs = <<>> /\ posts = <<>>

\* A message about this run and a report that names its discs.
Posted(m) ==
    /\ TrueReport(m.report, RebuildDiscs) /\ m.dryRun = run.dryRun
    /\ m.tapes = {t.barcode : t \in Range(run.written)} /\ m.problems = WriteHealthProblems

PostInv ==
    /\ Sequential(posts) /\ attempts \in 0..DeliverMaxAttempts /\ Len(posts) <= attempts
    /\ wf \in Before => posts = <<>> /\ attempts = 0
    /\ wf = "deliver" /\ at = "start" => attempts < DeliverMaxAttempts
    /\ wf = "deliver" /\ at = "post" => Len(posts) < attempts
    /\ wf = "deliver" /\ at = "accepted" => posts # <<>>
    /\ wf = "ok" /\ run.webhook => posts # <<>>
    /\ posts # <<>> => Len(discs) = run.copies
    /\ \A m \in Range(posts) : Posted(m)

DeliveryInv == FlowInv /\ ReportInv /\ KitInv /\ DiscInv /\ EscrowInv /\ PostInv

-----------------------------------------------------------------------------
(* Operators *)

\* A set of numbers below a bound has a largest one.
LEMMA Largest ==
    ASSUME NEW T \in SUBSET Nat, T # {}, NEW b \in Nat, \A k \in T : k <= b
    PROVE  \E m \in T : \A k \in T : k <= m
<1>1. PICK D : D = {d \in Nat : \E k \in T : d = b - k}
  OBVIOUS
<1>2. D \subseteq Nat /\ D # {}
  <2>1. PICK k \in T : k <= b
    OBVIOUS
  <2>2. b - k \in D
    BY <1>1, <2>1
  <2> QED
    BY <1>1, <2>2
<1>3. PICK R : R = OpToRel(<, Nat)
  OBVIOUS
<1>4. PICK d \in D : \A e \in D : ~(<<e, d>> \in R)
  BY <1>2, <1>3, NatLessThanWellFounded, WFMin
<1>5. \A e \in D : ~(e < d)
  BY <1>2, <1>3, <1>4 DEF OpToRel
<1>6. PICK m \in T : d = b - m
  BY <1>1
<1>7. ASSUME NEW k \in T PROVE k <= m
  <2>1. b - k \in D
    BY <1>1, <1>7
  <2> QED
    BY <1>5, <1>6, <2>1
<1> QED
  BY <1>7

\* The sequence of the one element of a set.
LEMMA SeqOfOne ==
    ASSUME NEW m
    PROVE  SetToSeq({m}) = <<m>>
<1>1. Cardinality({m}) = 1
  BY FS_Singleton
<1>2. [k \in 1..1 |-> m] \in [1..1 -> {m}] /\ IsInjective([k \in 1..1 |-> m])
  BY DEF IsInjective
<1>3. SetToSeq({m}) \in [1..1 -> {m}]
  BY <1>1, <1>2 DEF SetToSeq
<1>4. PICK s : s = SetToSeq({m})
  OBVIOUS
<1>5. s \in [1..1 -> {m}]
  BY <1>3, <1>4
<1>6. s = <<m>>
  BY <1>5
<1> QED
  BY <1>4, <1>6

\* A set with at most one element has a cardinality of at most one.
LEMMA FewElements ==
    ASSUME NEW S, AtMostOne(S)
    PROVE  Cardinality(S) <= 1
<1>1. CASE S = {}
  <2>1. Cardinality({}) = 0
    BY FS_EmptySet
  <2> QED
    BY <1>1, <2>1
<1>2. CASE S # {}
  <2>1. PICK x \in S : TRUE
    BY <1>2
  <2>2. S = {x}
    BY <2>1 DEF AtMostOne
  <2>3. Cardinality({x}) = 1
    BY FS_Singleton
  <2> QED
    BY <2>2, <2>3
<1> QED
  BY <1>1, <1>2

\* A value of a sequence's image is finite in number.
LEMMA FiniteImage ==
    ASSUME NEW f, NEW n \in Nat, DOMAIN f = 1..n
    PROVE  IsFiniteSet({f[k] : k \in 1..n})
<1>1. PICK T : T = {f[k] : k \in 1..n}
  OBVIOUS
<1>2. [k \in 1..n |-> f[k]] \in Surjection(1..n, T)
  BY <1>1 DEF Surjection
<1>3. IsFiniteSet(1..n)
  BY FS_Interval
<1> QED
  BY <1>1, <1>2, <1>3, FS_Surjection

\* What the assumption says of the run.
LEMMA RunShape ==
    ASSUME run \in Runs
    PROVE  /\ run.written \in Seq(WrittenTape)
           /\ run.binaries \in Seq(ToolFile) /\ run.sources \in Seq(ToolFile)
           /\ \A t \in Range(run.written) : t.tapeIndex \in DOMAIN run.plan
           /\ run.escrow \in Escrows /\ run.dryRun \in BOOLEAN /\ run.copies \in Nat
BY DeliveryAssumption

-----------------------------------------------------------------------------
(* The kit *)

\* The writer and the manifest give a file the same name.
LEMMA NamesAgree ==
    ASSUME NEW p, Sequential(p.stem)
    PROVE  WriterName(p) = ReadbackPath(p)
<1>1. PICK st, S : st = p.stem /\ st \in Seq(S)
  BY DEF Sequential
<1>2. PICK D : D = [k \in DOMAIN st |-> IF st[k] = "." THEN "_" ELSE st[k]]
  OBVIOUS
<1>3. /\ Len(st) \in Nat /\ Len(D) = Len(st)
      /\ \A k \in 1..Len(st) : D[k] = IF st[k] = "." THEN "_" ELSE st[k]
  <2>1. DOMAIN st = 1..Len(st) /\ Len(st) \in Nat /\ \A k \in 1..Len(st) : st[k] \in S
    BY <1>1
  <2>2. \A k \in 1..Len(st) : D[k] = IF st[k] = "." THEN "_" ELSE st[k]
    BY <1>2, <2>1
  <2>3. PICK T : T = S \cup {"_"}
    OBVIOUS
  <2>4. \A k \in 1..Len(st) : D[k] \in T
    BY <2>1, <2>2, <2>3
  <2>5. D = [k \in 1..Len(st) |-> IF st[k] = "." THEN "_" ELSE st[k]]
    BY <1>2, <2>1
  <2>6. D \in [1..Len(st) -> T]
    BY <2>2, <2>4, <2>5
  <2>7. Len(D) = Len(st)
    BY <2>1, <2>6
  <2> QED
    BY <2>1, <2>2, <2>7
<1>4. PICK n : n = IF Len(st) < MaxStem THEN Len(st) ELSE MaxStem
  OBVIOUS
<1>5. n \in Nat /\ n <= Len(st)
  BY <1>4, DeliveryAssumption
<1>6. MangleD1(D, MaxStem) = [k \in 1..n |-> IF D[k] = "#" THEN "_" ELSE Lower(D[k])]
  BY <1>3, <1>4 DEF MangleD1
<1>7. \A k \in 1..n : (IF D[k] = "#" THEN "_" ELSE Lower(D[k]))
                      = (CASE st[k] \in {"#", "."} -> "_" [] st[k] = "A" -> "a" [] OTHER -> st[k])
  <2> SUFFICES ASSUME NEW k \in 1..n
               PROVE  (IF D[k] = "#" THEN "_" ELSE Lower(D[k]))
                      = (CASE st[k] \in {"#", "."} -> "_" [] st[k] = "A" -> "a" [] OTHER -> st[k])
    OBVIOUS
  <2>0. k \in 1..Len(st)
    <3>1. Len(st) \in Nat
      BY <1>3
    <3> QED
      BY <1>5, <3>1
  <2>1. D[k] = IF st[k] = "." THEN "_" ELSE st[k]
    BY <1>3, <2>0
  <2>2. CASE st[k] = "."
    BY <2>1, <2>2 DEF Lower
  <2>3. CASE st[k] = "#"
    BY <2>1, <2>3 DEF Lower
  <2>4. CASE st[k] = "A"
    BY <2>1, <2>4 DEF Lower
  <2>5. CASE st[k] \notin {".", "#", "A"}
    BY <2>1, <2>5 DEF Lower
  <2> QED
    BY <2>2, <2>3, <2>4, <2>5
<1>8. MangleD1(D, MaxStem) = [k \in 1..n |-> CASE st[k] \in {"#", "."} -> "_" [] st[k] = "A" -> "a" [] OTHER -> st[k]]
  BY <1>6, <1>7
<1> QED
  BY <1>1, <1>2, <1>4, <1>8 DEF WriterName, ReadbackPath

\* A name on the disc has the directory and the extension of the file.
LEMMA NameParts ==
    ASSUME NEW dir, NEW stem, NEW ext
    PROVE  /\ ReadbackPath(Path(dir, stem, ext)).dir = dir
           /\ ReadbackPath(Path(dir, stem, ext)).ext = ext
BY DEF ReadbackPath, Path

\* The files of a kit, by directory.
LEMMA KitCases ==
    ASSUME run \in Runs, NEW r, NEW f \in KitFiles(r)
    PROVE  \/ f = StagedFile(Path("", <<"report">>, "pdf"), 1, [report |-> r])
           \/ f = StagedFile(Path("", <<"manifest">>, "sha256"), 2, [sums |-> BuildSHA256Manifest])
           \/ f = StagedFile(Path("", <<"recovery-procedure">>, "md"), 3, [doc |-> "procedure"])
           \/ \E k \in DOMAIN run.written :
                 f = StagedFile(IndexPath(run.written[k]), k, [indexOf |-> run.written[k].barcode])
           \/ \E k \in DOMAIN run.binaries :
                 /\ run.binaries[k].kind # "dir"
                 /\ f = StagedFile(Path("bin", run.binaries[k].stem, run.binaries[k].ext), k, run.binaries[k])
           \/ \E k \in DOMAIN run.sources :
                 /\ run.sources[k].kind # "dir"
                 /\ f = StagedFile(Path("src", run.sources[k].stem, run.sources[k].ext), k, run.sources[k])
BY DEF KitFiles, StagedIndexes, Staged

\* Their places have a bound, and their names are made of characters.
LEMMA KitShape ==
    ASSUME run \in Runs, NEW r
    PROVE  \E b \in Nat : \A f \in KitFiles(r) : f.pos \in Nat /\ f.pos <= b /\ Sequential(f.path.stem)
<1>1. PICK w, bin, src : w = run.written /\ bin = run.binaries /\ src = run.sources
  OBVIOUS
<1>2. w \in Seq(WrittenTape) /\ bin \in Seq(ToolFile) /\ src \in Seq(ToolFile)
  BY <1>1, RunShape
<1>3. PICK b \in Nat : b = 3 + Len(w) + Len(bin) + Len(src)
  BY <1>2
<1>4. 1 <= b /\ 2 <= b /\ 3 <= b /\ Len(w) <= b /\ Len(bin) <= b /\ Len(src) <= b
  BY <1>2, <1>3
<1>5. /\ \A k \in DOMAIN w : k \in Nat /\ k <= b /\ Sequential(w[k].barcode)
      /\ \A k \in DOMAIN bin : k \in Nat /\ k <= b /\ Sequential(bin[k].stem)
      /\ \A k \in DOMAIN src : k \in Nat /\ k <= b /\ Sequential(src[k].stem)
  <2>1. \A t \in WrittenTape : Sequential(t.barcode)
    BY DEF WrittenTape, Sequential
  <2>2. \A t \in ToolFile : Sequential(t.stem)
    BY DEF ToolFile, Sequential
  <2>3. \A k \in DOMAIN w : k \in Nat /\ k <= b /\ w[k] \in WrittenTape
    BY <1>2, <1>4
  <2>4. \A k \in DOMAIN bin : k \in Nat /\ k <= b /\ bin[k] \in ToolFile
    BY <1>2, <1>4
  <2>5. \A k \in DOMAIN src : k \in Nat /\ k <= b /\ src[k] \in ToolFile
    BY <1>2, <1>4
  <2> QED
    BY <2>1, <2>2, <2>3, <2>4, <2>5
<1>6. \A c : Sequential(<<c>>)
  <2> SUFFICES ASSUME NEW c PROVE <<c>> \in Seq({c})
    BY DEF Sequential
  <2> QED
    OBVIOUS
<1>7. ASSUME NEW f \in KitFiles(r) PROVE f.pos \in Nat /\ f.pos <= b /\ Sequential(f.path.stem)
  <2>1. CASE f = StagedFile(Path("", <<"report">>, "pdf"), 1, [report |-> r])
    BY <1>4, <1>6, <2>1 DEF StagedFile, Path
  <2>2. CASE f = StagedFile(Path("", <<"manifest">>, "sha256"), 2, [sums |-> BuildSHA256Manifest])
    BY <1>4, <1>6, <2>2 DEF StagedFile, Path
  <2>3. CASE f = StagedFile(Path("", <<"recovery-procedure">>, "md"), 3, [doc |-> "procedure"])
    BY <1>4, <1>6, <2>3 DEF StagedFile, Path
  <2>4. ASSUME NEW k \in DOMAIN run.written,
               f = StagedFile(IndexPath(run.written[k]), k, [indexOf |-> run.written[k].barcode])
        PROVE  f.pos \in Nat /\ f.pos <= b /\ Sequential(f.path.stem)
    BY <1>1, <1>5, <2>4 DEF StagedFile, Path, IndexPath
  <2>5. ASSUME NEW k \in DOMAIN run.binaries,
               f = StagedFile(Path("bin", run.binaries[k].stem, run.binaries[k].ext), k, run.binaries[k])
        PROVE  f.pos \in Nat /\ f.pos <= b /\ Sequential(f.path.stem)
    BY <1>1, <1>5, <2>5 DEF StagedFile, Path
  <2>6. ASSUME NEW k \in DOMAIN run.sources,
               f = StagedFile(Path("src", run.sources[k].stem, run.sources[k].ext), k, run.sources[k])
        PROVE  f.pos \in Nat /\ f.pos <= b /\ Sequential(f.path.stem)
    BY <1>1, <1>5, <2>6 DEF StagedFile, Path
  <2> QED
    BY <2>1, <2>2, <2>3, <2>4, <2>5, <2>6, KitCases
<1> QED
  BY <1>7

\* Under each name is the last of the files staged under it.
LEMMA KeyedValue ==
    ASSUME NEW N, NEW b \in Nat, \A f \in N : f.pos \in Nat /\ f.pos <= b,
           NEW n \in DOMAIN Keyed(N)
    PROVE  \E f \in N : f.name = n /\ Keyed(N)[n] = f.data
<1>1. n \in {f.name : f \in N}
  BY DEF Keyed
<1>2. PICK T : T = {f.pos : f \in {g \in N : g.name = n}}
  OBVIOUS
<1>3. T \in SUBSET Nat /\ T # {} /\ \A k \in T : k <= b
  BY <1>1, <1>2
<1>4. PICK m \in T : \A k \in T : k <= m
  BY <1>3, Largest
<1>5. PICK f \in N : f.name = n /\ f.pos = m
  BY <1>2, <1>4
<1>6. \A g \in N : g.name = n => g.pos <= f.pos
  BY <1>2, <1>4, <1>5
<1>7. PICK c : c = CHOOSE h \in N : h.name = n /\ \A g \in N : g.name = n => g.pos <= h.pos
  OBVIOUS
<1>8. c \in N /\ c.name = n
  BY <1>5, <1>6, <1>7
<1>9. Keyed(N)[n] = c.data
  BY <1>1, <1>7 DEF Keyed
<1> QED
  BY <1>8, <1>9

\* The image on the disc and the manifest of it say the same.
LEMMA ImageIsManifest ==
    ASSUME run \in Runs, NEW r
    PROVE  Image(r) = DiscManifest(r)
<1>1. \A f \in KitFiles(r) : WriterName(f.path) = ReadbackPath(f.path)
  BY KitShape, NamesAgree
<1>2. {[name |-> WriterName(f.path), pos |-> f.pos, data |-> f.data] : f \in KitFiles(r)}
      = {[name |-> ReadbackPath(f.path), pos |-> f.pos, data |-> f.data] : f \in KitFiles(r)}
  BY <1>1
<1> QED
  BY <1>2 DEF Image, DiscManifest

\* What the manifest has under a name was staged under it; and what was staged
\* under a name of its own is there.
LEMMA ManifestValue ==
    ASSUME run \in Runs, NEW r
    PROVE  /\ \A n \in DOMAIN DiscManifest(r) :
                 \E f \in KitFiles(r) : ReadbackPath(f.path) = n /\ DiscManifest(r)[n] = f.data
           /\ \A f \in KitFiles(r) : ReadbackPath(f.path) \in DOMAIN DiscManifest(r)
<1>1. PICK b \in Nat : \A f \in KitFiles(r) : f.pos \in Nat /\ f.pos <= b
  BY KitShape
<1>2. PICK N : N = {[name |-> ReadbackPath(f.path), pos |-> f.pos, data |-> f.data] : f \in KitFiles(r)}
  OBVIOUS
<1>3. DiscManifest(r) = Keyed(N)
  BY <1>2 DEF DiscManifest
<1>4. \A f \in N : f.pos \in Nat /\ f.pos <= b
  BY <1>1, <1>2
<1>5. ASSUME NEW n \in DOMAIN DiscManifest(r)
      PROVE  \E f \in KitFiles(r) : ReadbackPath(f.path) = n /\ DiscManifest(r)[n] = f.data
  <2>1. PICK g \in N : g.name = n /\ Keyed(N)[n] = g.data
    BY <1>3, <1>4, <1>5, KeyedValue
  <2>2. PICK f \in KitFiles(r) : g = [name |-> ReadbackPath(f.path), pos |-> f.pos, data |-> f.data]
    BY <1>2
  <2> QED
    BY <1>3, <2>1, <2>2
<1>6. ASSUME NEW f \in KitFiles(r) PROVE ReadbackPath(f.path) \in {g.name : g \in N}
  <2>1. PICK g : g = [name |-> ReadbackPath(f.path), pos |-> f.pos, data |-> f.data]
    OBVIOUS
  <2>2. g \in N /\ g.name = ReadbackPath(f.path)
    BY <1>2, <2>1
  <2> QED
    BY <2>2
<1>7. DOMAIN Keyed(N) = {g.name : g \in N}
  BY DEF Keyed
<1> QED
  BY <1>3, <1>5, <1>6, <1>7

\* What is under each name of the manifest, by directory.
Filed(r, m, n) ==
    \/ n.dir = "" /\ n.ext = "pdf" /\ m[n] = [report |-> r]
    \/ n.dir = "" /\ n.ext = "sha256" /\ m[n] = [sums |-> BuildSHA256Manifest]
    \/ n.dir = "" /\ n.ext = "md" /\ m[n] = [doc |-> "procedure"]
    \/ /\ n.dir = "ltfs-index"
       /\ \E k \in DOMAIN run.written : /\ n = ReadbackPath(IndexPath(run.written[k]))
                                        /\ m[n] = [indexOf |-> run.written[k].barcode]
    \/ n.dir = "bin" /\ \E k \in DOMAIN run.binaries : run.binaries[k].kind # "dir" /\ m[n] = run.binaries[k]
    \/ n.dir = "src" /\ \E k \in DOMAIN run.sources : run.sources[k].kind # "dir" /\ m[n] = run.sources[k]

LEMMA ManifestFiled ==
    ASSUME run \in Runs, NEW r, NEW n \in DOMAIN DiscManifest(r)
    PROVE  Filed(r, DiscManifest(r), n)
<1>1. PICK m : m = DiscManifest(r)
  OBVIOUS
<1>2. PICK f \in KitFiles(r) : ReadbackPath(f.path) = n /\ m[n] = f.data
  BY <1>1, ManifestValue
<1>3. CASE f = StagedFile(Path("", <<"report">>, "pdf"), 1, [report |-> r])
  <2>1. f.path = Path("", <<"report">>, "pdf") /\ f.data = [report |-> r]
    BY <1>3 DEF StagedFile
  <2>2. n = ReadbackPath(Path("", <<"report">>, "pdf"))
    BY <1>2, <2>1
  <2>3. n.dir = "" /\ n.ext = "pdf"
    BY <2>2 DEF ReadbackPath, Path
  <2> QED
    BY <1>1, <1>2, <1>3, <2>1, <2>3 DEF Filed
<1>4. CASE f = StagedFile(Path("", <<"manifest">>, "sha256"), 2, [sums |-> BuildSHA256Manifest])
  <2>1. f.path = Path("", <<"manifest">>, "sha256") /\ f.data = [sums |-> BuildSHA256Manifest]
    BY <1>4 DEF StagedFile
  <2>2. n = ReadbackPath(Path("", <<"manifest">>, "sha256"))
    BY <1>2, <2>1
  <2>3. n.dir = "" /\ n.ext = "sha256"
    BY <2>2 DEF ReadbackPath, Path
  <2> QED
    BY <1>1, <1>2, <1>4, <2>1, <2>3 DEF Filed
<1>5. CASE f = StagedFile(Path("", <<"recovery-procedure">>, "md"), 3, [doc |-> "procedure"])
  <2>1. f.path = Path("", <<"recovery-procedure">>, "md") /\ f.data = [doc |-> "procedure"]
    BY <1>5 DEF StagedFile
  <2>2. n = ReadbackPath(Path("", <<"recovery-procedure">>, "md"))
    BY <1>2, <2>1
  <2>3. n.dir = "" /\ n.ext = "md"
    BY <2>2 DEF ReadbackPath, Path
  <2> QED
    BY <1>1, <1>2, <1>5, <2>1, <2>3 DEF Filed
<1>6. ASSUME NEW k \in DOMAIN run.written,
             f = StagedFile(IndexPath(run.written[k]), k, [indexOf |-> run.written[k].barcode])
      PROVE  Filed(r, DiscManifest(r), n)
  <2>1. f.path = IndexPath(run.written[k]) /\ f.data = [indexOf |-> run.written[k].barcode]
    BY <1>6 DEF StagedFile
  <2>2. n.dir = "ltfs-index"
    BY <1>2, <2>1, NameParts DEF IndexPath
  <2> QED
    BY <1>1, <1>2, <2>1, <2>2 DEF Filed
<1>7. ASSUME NEW k \in DOMAIN run.binaries, run.binaries[k].kind # "dir",
             f = StagedFile(Path("bin", run.binaries[k].stem, run.binaries[k].ext), k, run.binaries[k])
      PROVE  Filed(r, DiscManifest(r), n)
  <2>1. f.path = Path("bin", run.binaries[k].stem, run.binaries[k].ext) /\ f.data = run.binaries[k]
    BY <1>7 DEF StagedFile
  <2>2. n = ReadbackPath(Path("bin", run.binaries[k].stem, run.binaries[k].ext))
    BY <1>2, <2>1
  <2>3. n.dir = "bin" /\ n.ext = run.binaries[k].ext
    BY <2>2, NameParts
  <2> QED
    BY <1>1, <1>2, <1>7, <2>1, <2>3 DEF Filed
<1>8. ASSUME NEW k \in DOMAIN run.sources, run.sources[k].kind # "dir",
             f = StagedFile(Path("src", run.sources[k].stem, run.sources[k].ext), k, run.sources[k])
      PROVE  Filed(r, DiscManifest(r), n)
  <2>1. f.path = Path("src", run.sources[k].stem, run.sources[k].ext) /\ f.data = run.sources[k]
    BY <1>8 DEF StagedFile
  <2>2. n = ReadbackPath(Path("src", run.sources[k].stem, run.sources[k].ext))
    BY <1>2, <2>1
  <2>3. n.dir = "src" /\ n.ext = run.sources[k].ext
    BY <2>2, NameParts
  <2> QED
    BY <1>1, <1>2, <1>8, <2>1, <2>3 DEF Filed
<1> QED
  BY <1>3, <1>4, <1>5, <1>6, <1>7, <1>8, KitCases

\* A manifest of a kit that could be built is one of a whole kit.
LEMMA KitIsWhole ==
    ASSUME run \in Runs, Buildable, NEW r, TrueReport(r, <<>>)
    PROVE  WholeKit(DiscManifest(r))
<1>1. PICK m : m = DiscManifest(r)
  OBVIOUS
<1>2. \A n \in DOMAIN m : Filed(r, m, n)
  BY <1>1, ManifestFiled
<1>3. \A f \in KitFiles(r) : ReadbackPath(f.path) \in DOMAIN m
  BY <1>1, ManifestValue
<1>4. BarcodesApart
  BY DEF Buildable, Validate, IndexPath, BarcodesApart
<1>5. ASSUME NEW k \in DOMAIN run.written
      PROVE  \E n \in DOMAIN m : m[n] = [indexOf |-> run.written[k].barcode]
  <2>1. PICK n : n = ReadbackPath(IndexPath(run.written[k]))
    OBVIOUS
  <2>2. PICK f : f = StagedFile(IndexPath(run.written[k]), k, [indexOf |-> run.written[k].barcode])
    OBVIOUS
  <2>3. f \in KitFiles(r) /\ f.path = IndexPath(run.written[k])
    BY <2>2 DEF KitFiles, StagedIndexes, StagedFile
  <2>4. n \in DOMAIN m /\ n.dir = "ltfs-index"
    BY <1>3, <2>1, <2>3, NameParts DEF IndexPath
  <2>5. PICK j \in DOMAIN run.written : /\ n = ReadbackPath(IndexPath(run.written[j]))
                                        /\ m[n] = [indexOf |-> run.written[j].barcode]
    BY <1>2, <2>4 DEF Filed
  <2>6. j = k
    BY <2>1, <2>5 DEF Buildable, Validate
  <2> QED
    BY <2>4, <2>5, <2>6
<1>6. \A b \in ToolFile : "report" \notin DOMAIN b /\ "sums" \notin DOMAIN b
  BY DEF ToolFile
<1>7. \E n \in DOMAIN m : "report" \in DOMAIN m[n]
  <2>1. PICK f : f = StagedFile(Path("", <<"report">>, "pdf"), 1, [report |-> r])
    OBVIOUS
  <2>2. f \in KitFiles(r)
    BY <2>1 DEF KitFiles
  <2>3. PICK n \in DOMAIN m : \E p : n = ReadbackPath(p) /\ p = Path("", <<"report">>, "pdf")
    BY <1>3, <2>1, <2>2 DEF StagedFile
  <2>4. n.dir = "" /\ n.ext = "pdf"
    <3>1. PICK p : n = ReadbackPath(p) /\ p = Path("", <<"report">>, "pdf")
      BY <2>3
    <3> QED
      BY <3>1 DEF ReadbackPath, Path
  <2>5. m[n] = [report |-> r]
    BY <1>2, <2>3, <2>4 DEF Filed
  <2> QED
    BY <2>3, <2>5
<1>8. (\A k \in DOMAIN run.binaries : run.binaries[k] \in ToolFile) /\ (\A k \in DOMAIN run.sources : run.sources[k] \in ToolFile)
  <2>1. PICK bin, src : bin = run.binaries /\ src = run.sources
    OBVIOUS
  <2>2. bin \in Seq(ToolFile) /\ src \in Seq(ToolFile)
    BY <2>1, RunShape
  <2>3. (\A k \in DOMAIN bin : bin[k] \in ToolFile) /\ (\A k \in DOMAIN src : src[k] \in ToolFile)
    BY <2>2
  <2> QED
    BY <2>1, <2>3
<1>9. ASSUME NEW n \in DOMAIN m
      PROVE  /\ "report" \in DOMAIN m[n] => m[n].report = r
             /\ "sums" \in DOMAIN m[n] => m[n].sums = BuildSHA256Manifest
  <2>1. CASE m[n] = [report |-> r]
    BY <2>1
  <2>2. CASE m[n] = [sums |-> BuildSHA256Manifest]
    BY <2>2
  <2>3. CASE m[n] = [doc |-> "procedure"] \/ \E k \in DOMAIN run.written : m[n] = [indexOf |-> run.written[k].barcode]
    BY <2>3
  <2>4. CASE m[n] \in ToolFile
    BY <1>6, <2>4
  <2> QED
    BY <1>2, <1>8, <2>1, <2>2, <2>3, <2>4 DEF Filed
<1>10. ASSUME NEW n \in DOMAIN m, n.dir = "bin" PROVE m[n].kind = "static"
  <2>1. PICK k \in DOMAIN run.binaries : run.binaries[k].kind # "dir" /\ m[n] = run.binaries[k]
    BY <1>2, <1>10 DEF Filed
  <2> QED
    BY <2>1 DEF Buildable, BinariesUsable, StaticallyLinked, Range
<1>11. \E n \in DOMAIN m : n.dir = "bin"
  <2>1. PICK k \in DOMAIN run.binaries : run.binaries[k].kind # "dir"
    BY DEF Buildable, BinariesUsable, Staged
  <2>2. PICK f : f = StagedFile(Path("bin", run.binaries[k].stem, run.binaries[k].ext), k, run.binaries[k])
    OBVIOUS
  <2>3. f \in KitFiles(r)
    BY <2>1, <2>2 DEF KitFiles, Staged
  <2> QED
    BY <1>3, <2>2, <2>3, NameParts DEF StagedFile
<1>12. \E n \in DOMAIN m : n.dir = "src"
  <2>1. PICK k \in DOMAIN run.sources : run.sources[k].kind # "dir"
    BY DEF Buildable, SourcesUsable, Staged
  <2>2. PICK f : f = StagedFile(Path("src", run.sources[k].stem, run.sources[k].ext), k, run.sources[k])
    OBVIOUS
  <2>3. f \in KitFiles(r)
    BY <2>1, <2>2 DEF KitFiles, Staged
  <2> QED
    BY <1>3, <2>2, <2>3, NameParts DEF StagedFile
<1> QED
  BY <1>1, <1>4, <1>5, <1>7, <1>9, <1>10, <1>11, <1>12 DEF WholeKit

\* What buildReportManifest renders is a true report.
LEMMA RenderedTrue ==
    ASSUME run \in Runs, NEW d \in Devices, NEW ds
    PROVE  TrueReport(BuildReportManifest(d, ds), ds)
<1>1. PICK w : w = run.written
  OBVIOUS
<1>2. w \in Seq(WrittenTape)
  BY <1>1, RunShape
<1>3. PICK all : all = {t.generation : t \in Range(run.written)}
  OBVIOUS
<1>5. IsFiniteSet(all)
  <2>1. PICK n \in Nat : n = Len(w)
    BY <1>2
  <2>2. PICK f : f = [k \in 1..n |-> w[k].generation]
    OBVIOUS
  <2>3. all = {f[k] : k \in 1..n}
    <3>1. DOMAIN w = 1..n
      BY <1>2, <2>1
    <3> QED
      BY <1>1, <1>3, <2>2, <3>1 DEF Range
  <2> QED
    BY <2>2, <2>3, FiniteImage
<1>6. CASE "unknown" \in all
  <2>1. TapeGeneration = "unknown"
    BY <1>3, <1>6 DEF TapeGeneration
  <2> QED
    BY <2>1 DEF TrueReport, BuildReportManifest
<1>7. CASE "unknown" \notin all /\ Cardinality(all) = 1
  <2>1. PICK g : all = {g}
    BY <1>5, <1>7, FS_Singleton
  <2>2. TapeGeneration = g
    BY <1>3, <1>7, <2>1 DEF TapeGeneration
  <2>3. g \in all /\ \A t \in Range(run.written) : t.generation = g
    BY <1>3, <2>1
  <2> QED
    BY <1>3, <2>2, <2>3 DEF TrueReport, BuildReportManifest
<1>8. CASE "unknown" \notin all /\ Cardinality(all) # 1
  <2>1. TapeGeneration = "mixed"
    BY <1>3, <1>8 DEF TapeGeneration
  <2> QED
    BY <2>1 DEF TrueReport, BuildReportManifest
<1> QED
  BY <1>6, <1>7, <1>8

-----------------------------------------------------------------------------
(* Steps *)

\* What depends on the run alone stays as it is.
LEMMA KitStays ==
    ASSUME run' = run, NEW r
    PROVE  /\ BuildSHA256Manifest' = BuildSHA256Manifest /\ ReportTapes' = ReportTapes
           /\ Buildable' <=> Buildable
           /\ Image(r)' = Image(r)
<1>1. BuildSHA256Manifest' = BuildSHA256Manifest /\ ReportTapes' = ReportTapes
  BY DEF BuildSHA256Manifest, ReportTapes, OnTape
<1>2. Buildable' <=> Buildable
  BY DEF Buildable, Validate, BinariesUsable, SourcesUsable
<1>3. StagedIndexes' = StagedIndexes
  BY DEF StagedIndexes
<1>4. KitFiles(r)' = KitFiles(r)
  BY <1>1, <1>3 DEF KitFiles
<1>5. Image(r)' = Image(r)
  BY <1>4 DEF Image
<1> QED
  BY <1>1, <1>2, <1>5

LEMMA TruthStays ==
    ASSUME run' = run, NEW r, NEW ds
    PROVE  /\ TrueReport(r, ds)' <=> TrueReport(r, ds)
           /\ WholeKit(r)' <=> WholeKit(r)
<1>1. TrueReport(r, ds)' <=> TrueReport(r, ds)
  BY KitStays DEF TrueReport
<1>2. \A q : TrueReport(q, <<>>)' <=> TrueReport(q, <<>>)
  BY KitStays DEF TrueReport
<1>3. BarcodesApart' <=> BarcodesApart
  BY DEF BarcodesApart
<1>4. BuildSHA256Manifest' = BuildSHA256Manifest
  BY KitStays
<1>5. WholeKit(r)' <=> WholeKit(r)
  BY <1>2, <1>3, <1>4 DEF WholeKit
<1> QED
  BY <1>1, <1>5

\* Discs and messages are sequences.
LEMMA SequentialAppend ==
    ASSUME NEW s, Sequential(s), NEW e
    PROVE  /\ Sequential(Append(s, e)) /\ s \o <<e>> = Append(s, e)
           /\ Len(s) \in Nat /\ Len(Append(s, e)) = Len(s) + 1
           /\ DOMAIN s = 1..Len(s) /\ DOMAIN Append(s, e) = 1..Len(s) + 1
           /\ \A k \in DOMAIN Append(s, e) : Append(s, e)[k] = IF k = Len(s) + 1 THEN e ELSE s[k]
           /\ Append(s, e) # <<>>
<1>1. PICK S : s \in Seq(S)
  BY DEF Sequential
<1>2. PICK T : T = S \cup {e}
  OBVIOUS
<1>3. s \in Seq(T) /\ e \in T
  BY <1>1, <1>2
<1>4. Append(s, e) \in Seq(T)
  BY <1>3
<1>5. Sequential(Append(s, e))
  BY <1>4 DEF Sequential
<1>6. /\ Len(s) \in Nat /\ Len(Append(s, e)) = Len(s) + 1
      /\ DOMAIN s = 1..Len(s) /\ DOMAIN Append(s, e) = 1..Len(s) + 1
  BY <1>3
<1>7. ASSUME NEW k \in 1..Len(s) + 1
      PROVE  Append(s, e)[k] = IF k = Len(s) + 1 THEN e ELSE s[k]
  BY <1>3, <1>6, <1>7
<1>8. s \o <<e>> = Append(s, e)
  BY <1>3
<1>9. Append(s, e) # <<>>
  BY <1>6
<1> QED
  BY <1>5, <1>6, <1>7, <1>8, <1>9

LEMMA DiscsLength ==
    ASSUME DiscInv
    PROVE  Len(discs) \in Nat /\ DOMAIN discs = 1..Len(discs)
<1>1. PICK S : discs \in Seq(S)
  BY DEF DiscInv, Sequential
<1> QED
  BY <1>1

LEMMA FlowPreserved ==
    ASSUME DeliveryInv, Next
    PROVE  FlowInv' /\ run' = run
<1>1. FlowInv /\ DiscInv /\ KitInv /\ Len(discs) \in Nat /\ run.copies \in Nat
  BY DiscsLength, RunShape DEF DeliveryInv, FlowInv
<1>2. MaxFaults \in Nat /\ MaxResumes \in Nat
  BY DeliveryAssumption
<1>3. CASE EscrowFails
  BY <1>1, <1>3 DEF EscrowFails, lost, burn, files, FlowInv, Terminal, Before, Burning
<1>4. CASE BuildReport
  <2>1. CASE After(at) = "done"
    <3>1. at = "pdf" \/ at = "manifest"
      BY <1>1, <1>4, <2>1 DEF BuildReport, After, BuildSteps
    <3>2. at = "pdf" => run.copies = 0
      BY <2>1 DEF After
    <3> QED
      BY <1>1, <1>4, <2>1, <3>1, <3>2 DEF BuildReport, lost, burn, FlowInv, Terminal, Before, Burning, BuildSteps, Idle
  <2>2. CASE After(at) = "error"
    BY <1>1, <1>4, <2>2 DEF BuildReport, lost, burn, FlowInv, Terminal, Before, Burning, BuildSteps
  <2>3. CASE After(at) \notin {"done", "error"}
    <3>1. After(at) \in BuildSteps
      BY <2>3 DEF After, BuildSteps
    <3> QED
      BY <1>1, <1>4, <2>3, <3>1 DEF BuildReport, lost, burn, FlowInv, Terminal, Before, Burning
  <2> QED
    BY <2>1, <2>2, <2>3
<1>5. CASE RebuildReport
  <2>1. at \in {"escrow", "render"} => After(at) \in {"render", "pdf"}
    BY DEF After
  <2> QED
    BY <1>1, <1>5, <2>1 DEF RebuildReport, lost, burn, FlowInv, Terminal, Before, Burning
<1>6. CASE AttemptFails
  BY <1>1, <1>2, <1>6 DEF AttemptFails, lost, burn, files, FlowInv, Terminal, Before, Burning, BuildSteps
<1>7. CASE AttemptLost
  BY <1>1, <1>2, <1>7 DEF AttemptLost, burn, files, FlowInv, Terminal, Before, Burning, BuildSteps
<1>8. CASE LostStep
  <2>1. old' \in BuildSteps \cup {Idle}
    BY <1>8 DEF LostStep, After, BuildSteps
  <2> QED
    BY <1>1, <1>8, <2>1 DEF LostStep, burn, FlowInv, Terminal, Before, Burning
<1>9. CASE LostStops
  BY <1>1, <1>9 DEF LostStops, burn, files, FlowInv, Terminal, Before, Burning
<1>10. CASE BurnDisc
  BY <1>1, <1>2, <1>10 DEF BurnDisc, lost, files, FlowInv, Terminal, Before, Burning
<1>11. CASE VerifyDisc
  <2>1. discs' = Append(discs, tray) /\ Len(discs') = Len(discs) + 1
    BY <1>1, <1>11, SequentialAppend DEF VerifyDisc, DiscInv
  <2> QED
    BY <1>1, <1>11, <2>1 DEF VerifyDisc, lost, files, FlowInv, Terminal, Before, Burning
<1>12. CASE DiscFails
  BY <1>1, <1>2, <1>12 DEF DiscFails, lost, files, FlowInv, Terminal, Before, Burning
<1>13. CASE Resume
  BY <1>1, <1>2, <1>13 DEF Resume, lost, files, burn, FlowInv, Terminal, Before, Burning
<1>14. CASE GivenUp
  BY <1>1, <1>14 DEF GivenUp, lost, files, burn, FlowInv, Terminal, Before, Burning
<1>15. CASE Deliver
  BY <1>1, <1>15 DEF Deliver, lost, files, burn, FlowInv, Terminal, Before, Burning
<1>16. CASE Accepted
  BY <1>1, <1>16 DEF Accepted, lost, files, burn, FlowInv, Terminal, Before, Burning, BuildSteps, Idle
<1>17. CASE Refused \/ Answered
  BY <1>1, <1>17 DEF Refused, Answered, Ends, lost, files, burn, FlowInv, Terminal, Before, Burning, BuildSteps, Idle
<1>18. CASE Done
  BY <1>1, <1>18 DEF Done, vars, lost, files, burn, FlowInv
<1> QED
  BY <1>3, <1>4, <1>5, <1>6, <1>7, <1>8, <1>9, <1>10, <1>11, <1>12, <1>13, <1>14, <1>15, <1>16, <1>17, <1>18 DEF Next

-----------------------------------------------------------------------------
(* The reports *)

LEMMA RenderedOne ==
    ASSUME run \in Runs, NEW p, NEW S, NEW ds, AtMostOne(S), \A r \in S : TrueReport(r, ds),
           NEW T \in Rendered(p, S, ds)
    PROVE  /\ AtMostOne(T) /\ \A r \in T : TrueReport(r, ds)
           /\ p = "render" => T # {}
           /\ p # "render" => T = S
<1>1. CASE p = "render"
  <2>1. PICK d \in Devices : T = {BuildReportManifest(d, ds)}
    BY <1>1 DEF Rendered
  <2>2. TrueReport(BuildReportManifest(d, ds), ds)
    BY RenderedTrue
  <2> QED
    BY <1>1, <2>1, <2>2 DEF AtMostOne
<1>2. CASE p # "render"
  BY <1>2 DEF Rendered
<1> QED
  BY <1>1, <1>2

LEMMA NoDiscs == discs = <<>> => RebuildDiscs = <<>>
BY DEF RebuildDiscs, ReportDiscs

LEMMA ReportPreserved ==
    ASSUME DeliveryInv, Next
    PROVE  ReportInv'
<1>1. FlowInv /\ ReportInv /\ run \in Runs /\ run' = run /\ Len(discs) \in Nat
  BY FlowPreserved, DiscsLength DEF DeliveryInv, FlowInv
<1>2. \A r : TrueReport(r, <<>>)' <=> TrueReport(r, <<>>)
  BY <1>1, TruthStays
<1>3. discs' = discs => \A r : TrueReport(r, RebuildDiscs)' <=> TrueReport(r, RebuildDiscs)
  BY <1>1, KitStays DEF TrueReport, RebuildDiscs, ReportDiscs
<1>4. CASE EscrowFails
  BY <1>1, <1>2, <1>3, <1>4 DEF EscrowFails, lost, burn, files, ReportInv, Terminal, Before, Burning
<1>5. CASE BuildReport
  <2>1. AtMostOne(ren) /\ \A r \in ren : TrueReport(r, <<>>)
    BY <1>1, <1>5 DEF BuildReport, ReportInv
  <2>2. /\ AtMostOne(ren') /\ \A r \in ren' : TrueReport(r, <<>>)
        /\ at = "render" => ren' # {}
        /\ at # "render" => ren' = ren
    BY <1>1, <1>5, <2>1, RenderedOne DEF BuildReport
  <2>3. pdf' = (IF at = "pdf" THEN ren ELSE pdf) /\ AtMostOne(pdf') /\ \A r \in pdf' : TrueReport(r, <<>>)
    BY <1>1, <1>5, <2>1 DEF BuildReport, Writes, ReportInv, Before
  <2>4. discs' = discs /\ discs = <<>> /\ RebuildDiscs = <<>> /\ oldRen' = oldRen /\ old' = old
    BY <1>1, <1>5, NoDiscs DEF BuildReport, FlowInv, burn, lost
  <2>5. \/ After(at) = "done" /\ at \in {"pdf", "manifest"} /\ wf' \in {"deliver", "burn"} /\ at' \in {"start", Idle}
        \/ wf' = "report" /\ at' = "escrow"
        \/ wf' = "report" /\ at' = After(at)
    <3>1. at \in BuildSteps /\ (After(at) = "done" => at \in {"pdf", "manifest"})
      BY <1>1, <1>5 DEF BuildReport, After, BuildSteps
    <3> QED
      BY <1>1, <1>5, <3>1 DEF BuildReport
  <2>6. /\ After(at) = "pdf" => at = "render"
        /\ After(at) \in {"create", "build", "manifest"} => at \in {"pdf", "create", "build"}
    BY <1>5 DEF BuildReport, After, BuildSteps
  <2>7. at \in {"pdf", "create", "build", "manifest"} => ren # {} /\ pdf' # {}
    BY <1>1, <1>5, <2>3 DEF BuildReport, ReportInv
  <2>8. /\ wf' = "report" /\ at' \in {"pdf", "create", "build", "manifest"} => ren' # {}
        /\ wf' = "report" /\ at' \in {"create", "build", "manifest"} => pdf' # {}
        /\ wf' # "report" => pdf' # {}
    BY <2>2, <2>5, <2>6, <2>7
  <2>9. wf' \in {"report", "burn", "deliver"} /\ (wf' = "deliver" => at' = "start" \/ at' = Idle)
    BY <2>5
  <2> QED
    BY <1>1, <1>2, <1>3, <2>2, <2>3, <2>4, <2>8, <2>9 DEF ReportInv, Before, Burning, Terminal, Idle
<1>6. CASE RebuildReport
  <2>1. AtMostOne(ren) /\ \A r \in ren : TrueReport(r, RebuildDiscs)
    BY <1>1, <1>6 DEF RebuildReport, ReportInv
  <2>2. /\ AtMostOne(ren') /\ \A r \in ren' : TrueReport(r, RebuildDiscs)
        /\ at = "render" => ren' # {}
        /\ at # "render" => ren' = ren
    BY <1>1, <1>6, <2>1, RenderedOne DEF RebuildReport
  <2>3. discs' = discs /\ oldRen' = oldRen /\ old' = old /\ old = Idle
    BY <1>6 DEF RebuildReport, burn, lost
  <2>4. at \in {"escrow", "render", "pdf"} /\ (at = "escrow" => After(at) = "render") /\ (at = "render" => After(at) = "pdf")
    BY <1>1, <1>6 DEF RebuildReport, FlowInv, After
  <2> QED
    BY <1>1, <1>2, <1>3, <1>6, <2>1, <2>2, <2>3, <2>4 DEF RebuildReport, ReportInv, Before, Burning, Terminal
<1>7. CASE AttemptFails
  BY <1>1, <1>2, <1>3, <1>7 DEF AttemptFails, lost, burn, files, ReportInv, Terminal, Before, Burning, AtMostOne
<1>8. CASE AttemptLost
  BY <1>1, <1>2, <1>3, <1>8 DEF AttemptLost, burn, files, ReportInv, FlowInv, Terminal, Before, Burning, AtMostOne
<1>9. CASE LostStep
  <2>1. AtMostOne(oldRen) /\ \A r \in oldRen : TrueReport(r, <<>>)
    BY <1>1 DEF ReportInv
  <2>2. /\ AtMostOne(oldRen') /\ \A r \in oldRen' : TrueReport(r, <<>>)
        /\ old = "render" => oldRen' # {}
        /\ old # "render" => oldRen' = oldRen
    BY <1>1, <1>9, <2>1, RenderedOne DEF LostStep
  <2>3. pdf' = IF old = "pdf" THEN oldRen ELSE pdf
    BY <1>9 DEF LostStep, Writes
  <2>4. old' \in {"pdf", "create", "build", "manifest"} => old \in {"render", "pdf", "create", "build"}
    BY <1>1, <1>9 DEF LostStep, FlowInv, After, BuildSteps, Idle
  <2>5. /\ AtMostOne(pdf')
        /\ wf \in Before => \A r \in pdf' : TrueReport(r, <<>>)
        /\ wf = "deliver" => \A r \in pdf' : TrueReport(r, RebuildDiscs)
        /\ wf \in Terminal => \A r \in pdf' : TrueReport(r, <<>>) \/ TrueReport(r, RebuildDiscs)
        /\ pdf # {} => pdf' # {}
    BY <1>1, <1>9, <2>1, <2>3, NoDiscs DEF LostStep, ReportInv, FlowInv
  <2>6. discs' = discs /\ wf' = wf /\ at' = at /\ ren' = ren
    BY <1>9 DEF LostStep, burn
  <2>7. old' \in {"pdf", "create", "build", "manifest"} => oldRen' # {}
    BY <1>1, <2>2, <2>4 DEF ReportInv
  <2> QED
    BY <1>1, <1>2, <1>3, <2>2, <2>5, <2>6, <2>7 DEF ReportInv
<1>10. CASE LostStops
  BY <1>1, <1>2, <1>3, <1>10 DEF LostStops, burn, files, ReportInv, AtMostOne, Idle
<1>11. CASE BurnDisc
  BY <1>1, <1>2, <1>11 DEF BurnDisc, lost, files, ReportInv, Terminal, Before, Burning
<1>12. CASE VerifyDisc
  BY <1>1, <1>2, <1>12 DEF VerifyDisc, lost, files, ReportInv, Terminal, Before, Burning, AtMostOne, Idle
<1>13. CASE DiscFails
  BY <1>1, <1>2, <1>13 DEF DiscFails, lost, files, ReportInv, Terminal, Before, Burning
<1>14. CASE Resume
  BY <1>1, <1>2, <1>14 DEF Resume, lost, files, burn, ReportInv, Terminal, Before, Burning
<1>15. CASE GivenUp
  BY <1>1, <1>2, <1>15 DEF GivenUp, lost, files, burn, ReportInv, Terminal, Before, Burning
<1>16. CASE Deliver
  BY <1>1, <1>2, <1>3, <1>16 DEF Deliver, lost, files, burn, ReportInv, Terminal, Before, Burning
<1>17. CASE Accepted
  BY <1>1, <1>2, <1>3, <1>17 DEF Accepted, lost, files, burn, ReportInv, FlowInv, Terminal, Before, Burning, BuildSteps, Idle
<1>18. CASE Refused \/ Answered
  <2>1. wf = "deliver"
    BY <1>1, <1>18 DEF Refused, Answered, FlowInv, Terminal, Before, Burning, BuildSteps, Idle
  <2> QED
    BY <1>1, <1>2, <1>3, <1>18, <2>1 DEF Refused, Answered, Ends, lost, files, burn, ReportInv, Terminal, Before, Burning, AtMostOne, Idle
<1>19. CASE Done
  BY <1>1, <1>2, <1>3, <1>19 DEF Done, vars, lost, files, burn, ReportInv
<1> QED
  BY <1>4, <1>5, <1>6, <1>7, <1>8, <1>9, <1>10, <1>11, <1>12, <1>13, <1>14, <1>15, <1>16, <1>17, <1>18, <1>19 DEF Next

-----------------------------------------------------------------------------
(* The kit and the discs *)

\* What a step of an attempt writes, given a true report.
LEMMA WritesKits ==
    ASSUME run \in Runs, KitInv, NEW p, NEW S, AtMostOne(S), \A r \in S : TrueReport(r, <<>>),
           p = "manifest" => Buildable, Writes(p, S)
    PROVE  /\ AtMostOne(iso') /\ AtMostOne(man') /\ \A m \in man' : WholeKit(m)
           /\ p = "build" /\ Buildable => iso' = {Image(r) : r \in S}
           /\ p = "manifest" => iso' = iso /\ man' = {Image(r) : r \in S}
<1>1. \A r : Image(r) = DiscManifest(r)
  BY ImageIsManifest
<1>2. Buildable => \A r \in S : WholeKit(DiscManifest(r))
  BY KitIsWhole
<1>3. \/ iso' = {} \/ iso' = {Image(r) : r \in S} \/ iso' = iso
  BY DEF Writes
<1>4. AtMostOne(iso')
  BY <1>3 DEF AtMostOne, KitInv
<1>5. man' = IF p = "manifest" THEN {DiscManifest(x) : x \in S} ELSE man
  BY DEF Writes
<1>6. AtMostOne(man') /\ \A m \in man' : WholeKit(m)
  BY <1>2, <1>5 DEF AtMostOne, KitInv
<1>7. p = "build" /\ Buildable => iso' = {Image(r) : r \in S}
  BY DEF Writes
<1>8. p = "manifest" => iso' = iso
  BY DEF Writes
<1>9. p = "manifest" => man' = {Image(r) : r \in S}
  BY <1>1, <1>5
<1> QED
  BY <1>4, <1>6, <1>7, <1>8, <1>9

\* A disc that reads as a whole kit's manifest says is one.
LEMMA VerifiedWhole ==
    ASSUME NEW x, NEW m, VerifyTree(x, m), WholeKit(m)
    PROVE  WholeKit(x)
BY DEF VerifyTree, WholeKit

LEMMA KitPreserved ==
    ASSUME DeliveryInv, Next
    PROVE  KitInv'
<1>1. FlowInv /\ ReportInv /\ KitInv /\ run \in Runs /\ run' = run
  BY FlowPreserved DEF DeliveryInv, FlowInv
<1>2. \A m : WholeKit(m)' <=> WholeKit(m)
  BY <1>1, TruthStays
<1>3. (Buildable' <=> Buildable) /\ \A r : Image(r)' = Image(r)
  BY <1>1, KitStays
<1>4. CASE EscrowFails
  BY <1>1, <1>2, <1>3, <1>4 DEF EscrowFails, lost, burn, files, KitInv, Burning
<1>5. CASE BuildReport
  <2>1. AtMostOne(ren) /\ \A r \in ren : TrueReport(r, <<>>)
    BY <1>1, <1>5 DEF BuildReport, ReportInv
  <2>2. Writes(at, ren) /\ wf = "report" /\ at \in BuildSteps /\ (at = "manifest" => Buildable)
    BY <1>1, <1>5 DEF BuildReport, KitInv
  <2>3. /\ AtMostOne(iso') /\ AtMostOne(man') /\ \A m \in man' : WholeKit(m)
        /\ at = "build" /\ Buildable => iso' = {Image(r) : r \in ren}
        /\ at = "manifest" => iso' = iso /\ man' = {Image(r) : r \in ren}
    BY <1>1, <2>1, <2>2, WritesKits
  <2>4. at # "render" => ren' = ren
    BY <1>1, <1>5, <2>1, RenderedOne DEF BuildReport
  <2>5. tray' = tray /\ old' = old /\ overlapped' = overlapped
    BY <1>5 DEF BuildReport, lost, burn
  <2>6. wf' = "report" /\ at' = "manifest" => at = "build" /\ Buildable
    BY <1>5, <2>2 DEF BuildReport, After, BuildSteps
  <2>7. wf' \in Burning => at = "manifest" /\ ren # {}
    <3>1. wf' \in Burning => After(at) = "done" /\ run.copies # 0
      BY <1>5, <2>2 DEF BuildReport, Burning
    <3>2. After(at) = "done" /\ run.copies # 0 => at = "manifest"
      BY <2>2 DEF After, BuildSteps
    <3> QED
      BY <1>1, <2>2, <3>1, <3>2 DEF ReportInv
  <2>8. ~overlapped' /\ wf' = "report" /\ at' = "manifest" => iso' = {Image(r)' : r \in ren'}
    BY <1>3, <2>3, <2>4, <2>6
  <2>9. ~overlapped' /\ wf' \in Burning => \E x \in iso' : x \in man'
    BY <1>1, <2>2, <2>3, <2>5, <2>7 DEF KitInv
  <2>10. (wf' = "report" /\ at' = "manifest") \/ old' = "manifest" => Buildable'
    BY <1>1, <1>3, <2>5, <2>6 DEF KitInv
  <2> QED
    BY <1>1, <1>2, <2>3, <2>5, <2>8, <2>9, <2>10 DEF KitInv
<1>6. CASE RebuildReport
  BY <1>1, <1>2, <1>3, <1>6 DEF RebuildReport, lost, burn, KitInv, Burning
<1>7. CASE AttemptFails
  BY <1>1, <1>2, <1>3, <1>7 DEF AttemptFails, lost, burn, files, KitInv, Burning
<1>8. CASE AttemptLost
  BY <1>1, <1>2, <1>3, <1>8 DEF AttemptLost, burn, files, KitInv, Burning
<1>9. CASE LostStep
  <2>1. AtMostOne(oldRen) /\ \A r \in oldRen : TrueReport(r, <<>>)
    BY <1>1 DEF ReportInv
  <2>2. Writes(old, oldRen) /\ (old = "manifest" => Buildable) /\ overlapped
    BY <1>1, <1>9 DEF LostStep, KitInv, FlowInv
  <2>3. AtMostOne(iso') /\ AtMostOne(man') /\ \A m \in man' : WholeKit(m)
    BY <1>1, <2>1, <2>2, WritesKits
  <2>4. old' = "manifest" => Buildable
    BY <1>1, <1>9 DEF LostStep, After, FlowInv, BuildSteps, Idle
  <2>5. tray' = tray /\ wf' = wf /\ at' = at /\ overlapped'
    BY <1>9, <2>2 DEF LostStep, burn
  <2> QED
    BY <1>1, <1>2, <1>3, <2>3, <2>4, <2>5 DEF KitInv
<1>10. CASE LostStops
  BY <1>1, <1>2, <1>3, <1>10 DEF LostStops, burn, files, KitInv, Idle
<1>11. CASE BurnDisc
  <2>1. AtMostOne(tray'.holds) /\ tray'.overwrote \in BOOLEAN
    <3>1. PICK b \in BOOLEAN :
            \/ tray' = [holds |-> iso, overwrote |-> b]
            \/ \E x \in iso : \E n \in DOMAIN x : tray' = [holds |-> {[x EXCEPT ![n] = [damaged |-> TRUE]]}, overwrote |-> b]
      BY <1>11 DEF BurnDisc
    <3>2. tray'.overwrote = b
      BY <3>1
    <3>3. AtMostOne(tray'.holds)
      <4>1. tray'.holds = iso \/ \E y : tray'.holds = {y}
        <5>1. CASE tray' = [holds |-> iso, overwrote |-> b]
          BY <5>1
        <5>2. ASSUME NEW y, tray' = [holds |-> {y}, overwrote |-> b] PROVE tray'.holds = {y}
          BY <5>2
        <5> QED
          BY <3>1, <5>1, <5>2
      <4> QED
        BY <1>1, <4>1 DEF AtMostOne, KitInv
    <3> QED
      BY <3>2, <3>3
  <2> QED
    BY <1>1, <1>2, <1>3, <1>11, <2>1 DEF BurnDisc, lost, files, KitInv, Burning
<1>12. CASE VerifyDisc
  BY <1>1, <1>2, <1>3, <1>12 DEF VerifyDisc, lost, files, KitInv, Burning, NoDisc, AtMostOne
<1>13. CASE DiscFails
  BY <1>1, <1>2, <1>3, <1>13 DEF DiscFails, lost, files, KitInv, Burning, NoDisc, AtMostOne
<1>14. CASE Resume
  BY <1>1, <1>2, <1>3, <1>14 DEF Resume, lost, files, burn, KitInv, Burning
<1>15. CASE GivenUp
  BY <1>1, <1>2, <1>3, <1>15 DEF GivenUp, lost, files, burn, KitInv, Burning
<1>16. CASE Deliver
  BY <1>1, <1>2, <1>3, <1>16 DEF Deliver, lost, files, burn, KitInv, Burning
<1>17. CASE Accepted
  BY <1>1, <1>2, <1>3, <1>17 DEF Accepted, lost, files, burn, KitInv, FlowInv, Burning, Before, Terminal, BuildSteps, Idle
<1>18. CASE Refused \/ Answered
  <2>1. wf = "deliver"
    BY <1>1, <1>18 DEF Refused, Answered, FlowInv, Terminal, Before, Burning, BuildSteps, Idle
  <2> QED
    BY <1>1, <1>2, <1>3, <1>18, <2>1 DEF Refused, Answered, Ends, lost, files, burn, KitInv, Burning
<1>19. CASE Done
  BY <1>1, <1>2, <1>3, <1>19 DEF Done, vars, lost, files, burn, KitInv
<1> QED
  BY <1>4, <1>5, <1>6, <1>7, <1>8, <1>9, <1>10, <1>11, <1>12, <1>13, <1>14, <1>15, <1>16, <1>17, <1>18, <1>19 DEF Next

LEMMA DiscPreserved ==
    ASSUME DeliveryInv, Next
    PROVE  DiscInv'
<1>1. FlowInv /\ KitInv /\ DiscInv /\ run' = run
  BY FlowPreserved DEF DeliveryInv
<1>2. \A m : WholeKit(m)' <=> WholeKit(m)
  BY <1>1, TruthStays
<1>3. CASE VerifyDisc
  <2>1. discs' = Append(discs, tray) /\ Sequential(discs)
    BY <1>1, <1>3 DEF VerifyDisc, DiscInv
  <2>2. \A x \in tray.holds : WholeKit(x)
    <3>1. PICK x \in tray.holds, m \in man : VerifyTree(x, m)
      BY <1>3 DEF VerifyDisc, Verified
    <3>2. WholeKit(x)
      BY <1>1, <3>1, VerifiedWhole DEF KitInv
    <3> QED
      BY <1>1, <3>1, <3>2 DEF KitInv, AtMostOne
  <2>3. tray.overwrote \in BOOLEAN
    BY <1>1 DEF KitInv
  <2>4. /\ Sequential(discs') /\ Len(discs) \in Nat
        /\ DOMAIN discs = 1..Len(discs) /\ DOMAIN discs' = 1..Len(discs) + 1
        /\ \A k \in DOMAIN discs' : discs'[k] = IF k = Len(discs) + 1 THEN tray ELSE discs[k]
    BY <2>1, SequentialAppend
  <2>5. ASSUME NEW k \in DOMAIN discs'
        PROVE  discs'[k].overwrote \in BOOLEAN /\ \A x \in discs'[k].holds : WholeKit(x)
    <3>1. CASE k = Len(discs) + 1
      <4>1. discs'[k] = tray
        BY <2>4, <3>1
      <4> QED
        BY <2>2, <2>3, <4>1
    <3>2. CASE k # Len(discs) + 1
      <4>1. discs'[k] = discs[k] /\ k \in DOMAIN discs
        BY <2>4, <3>2
      <4> QED
        BY <1>1, <4>1 DEF DiscInv
    <3> QED
      BY <3>1, <3>2
  <2> QED
    BY <1>2, <2>4, <2>5 DEF DiscInv
<1>4. CASE discs' = discs
  BY <1>1, <1>2, <1>4 DEF DiscInv
<1>5. discs' = discs \/ VerifyDisc
  BY DEF Next, EscrowFails, BuildReport, RebuildReport, AttemptFails, AttemptLost, LostStep, LostStops, BurnDisc,
         DiscFails, Resume, GivenUp, Deliver, Accepted, Refused, Answered, Ends, Done, burn, vars
<1> QED
  BY <1>3, <1>4, <1>5

-----------------------------------------------------------------------------
(* The identity and the messages *)

LEMMA EscrowPreserved ==
    ASSUME DeliveryInv, Next
    PROVE  EscrowInv'
<1> SUFFICES ASSUME run.escrow # "match" PROVE EscrowInv'
  BY FlowPreserved DEF EscrowInv
<1>1. /\ wf \in {"report", "failed"} /\ at \in {"escrow", Idle} /\ old = Idle
      /\ pdf = {} /\ iso = {} /\ discs = <<>> /\ posts = <<>> /\ FlowInv /\ run' = run
  BY FlowPreserved DEF DeliveryInv, EscrowInv
<1>2. EscrowFails \/ AttemptFails \/ Done
  BY <1>1 DEF Next, BuildReport, BuildSteps, Idle, EscrowValid, RebuildReport, AttemptLost, LostStep, LostStops,
              BurnDisc, VerifyDisc, DiscFails, Resume, GivenUp, Deliver, Accepted, Refused, Answered, FlowInv
<1> QED
  BY <1>1, <1>2 DEF EscrowFails, AttemptFails, Done, vars, lost, files, burn, EscrowInv

LEMMA PostPreserved ==
    ASSUME DeliveryInv, Next
    PROVE  PostInv'
<1>1. FlowInv /\ ReportInv /\ PostInv /\ DiscInv /\ run' = run /\ Sequential(posts)
  BY FlowPreserved DEF DeliveryInv, PostInv
<1>2. DeliverMaxAttempts \in Nat \ {0} /\ attempts \in Nat /\ run.copies \in Nat /\ run.webhook \in BOOLEAN
  BY <1>1, DeliveryAssumption DEF PostInv, FlowInv
<1>3. Len(posts) \in Nat
  BY <1>1, SequentialAppend
<1>4. WriteHealthProblems' = WriteHealthProblems
  BY <1>1 DEF WriteHealthProblems
<1>5. discs' = discs => \A m : Posted(m)' <=> Posted(m)
  BY <1>1, <1>4, KitStays DEF Posted, TrueReport, RebuildDiscs, ReportDiscs
<1>6. CASE posts' = posts /\ attempts' = attempts /\ wf \in Before /\ wf' \in Before \cup {"failed"}
  <2>1. posts = <<>> /\ posts' = <<>> /\ attempts' = 0 /\ attempts = 0
    BY <1>1, <1>6 DEF PostInv
  <2>2. Len(posts') = 0 /\ Range(posts)' = {}
    BY <2>1 DEF Range
  <2>3. wf' \notin {"deliver", "ok"}
    BY <1>6 DEF Before, Burning
  <2>4. Sequential(posts')
    BY <1>1, <1>6
  <2> QED
    BY <1>2, <2>1, <2>2, <2>3, <2>4 DEF PostInv
<1>7. CASE BuildReport
  <2>1. wf' \in {"report", "burn"} \/ (wf' = "deliver" /\ at' = "start" /\ run.copies = 0)
    BY <1>7 DEF BuildReport
  <2> QED
    BY <1>1, <1>2, <1>3, <1>5, <1>7, <2>1 DEF BuildReport, burn, PostInv, Before, Burning
<1>8. CASE RebuildReport
  BY <1>1, <1>2, <1>3, <1>5, <1>8 DEF RebuildReport, burn, PostInv, Before, Burning
<1>9. CASE LostStep \/ LostStops \/ Done
  BY <1>1, <1>2, <1>3, <1>5, <1>9 DEF LostStep, LostStops, Done, vars, burn, PostInv
<1>10. CASE Deliver
  BY <1>1, <1>2, <1>3, <1>5, <1>10 DEF Deliver, ThisAttempt, burn, PostInv, Before, Burning, Idle
<1>11. CASE Accepted
  <2>1. wf = "deliver" /\ wf' = wf /\ discs' = discs /\ attempts' = attempts /\ at = "post" /\ at' = "accepted"
    BY <1>1, <1>11 DEF Accepted, burn, FlowInv, Terminal, Before, Burning, BuildSteps, Idle
  <2>2. PICK x : ren = {x}
    <3>1. PICK x \in ren : TRUE
      BY <1>1, <2>1 DEF ReportInv
    <3>2. ren = {x}
      BY <1>1, <3>1 DEF ReportInv, AtMostOne
    <3> QED
      BY <3>2
  <2>3. PICK m : m = Message(x)
    OBVIOUS
  <2>4. {Message(y) : y \in ren} = {m}
    BY <2>2, <2>3
  <2>5. posts' = Append(posts, m)
    <3>1. posts' = posts \o <<m>>
      BY <1>11, <2>4, SeqOfOne DEF Accepted
    <3> QED
      BY <1>1, <3>1, SequentialAppend
  <2>6. Posted(m)
    <3>1. TrueReport(x, RebuildDiscs)
      BY <1>1, <2>1, <2>2 DEF ReportInv
    <3> QED
      BY <2>3, <3>1 DEF Posted, Message
  <2>7. /\ Sequential(posts') /\ Len(posts') = Len(posts) + 1 /\ posts' # <<>>
        /\ DOMAIN posts = 1..Len(posts) /\ DOMAIN posts' = 1..Len(posts) + 1
        /\ \A k \in DOMAIN posts' : posts'[k] = IF k = Len(posts) + 1 THEN m ELSE posts[k]
    BY <1>1, <2>5, SequentialAppend
  <2>8. ASSUME NEW e \in Range(posts)' PROVE Posted(e)
    <3>1. PICK k \in DOMAIN posts' : e = posts'[k]
      BY DEF Range
    <3>2. e = m \/ e \in Range(posts)
      BY <1>3, <2>7, <3>1 DEF Range
    <3> QED
      BY <1>1, <2>6, <3>2 DEF PostInv
  <2>9. \A e \in Range(posts)' : Posted(e)'
    BY <1>5, <2>1, <2>8
  <2>10. Len(posts') <= attempts'
    BY <1>1, <1>2, <1>3, <2>1, <2>7 DEF PostInv
  <2>11. Len(discs') = run'.copies
    BY <1>1, <2>1 DEF FlowInv
  <2> QED
    BY <1>1, <2>1, <2>7, <2>9, <2>10, <2>11 DEF PostInv, Before, Burning
<1>12. CASE Refused \/ Answered
  <2>1. wf = "deliver" /\ at \in {"post", "accepted"}
    BY <1>1, <1>12 DEF Refused, Answered, FlowInv, Terminal, Before, Burning, BuildSteps, Idle
  <2>2. discs' = discs /\ posts' = posts /\ attempts' = attempts
    BY <1>12 DEF Refused, Answered, Ends, burn
  <2>3. \/ wf' = "ok" /\ at = "accepted"
        \/ wf' = "deliver" /\ at' = "start" /\ attempts < DeliverMaxAttempts
        \/ wf' = "failed"
    BY <1>12, <2>1 DEF Refused, Answered, Ends, Succeeded, Statuses, AttemptsLeft
  <2> QED
    BY <1>1, <1>2, <1>3, <1>5, <2>1, <2>2, <2>3 DEF PostInv, Before, Burning
<1>13. CASE EscrowFails \/ AttemptFails \/ AttemptLost \/ BurnDisc \/ VerifyDisc \/ DiscFails \/ Resume \/ GivenUp
  BY <1>6, <1>13 DEF EscrowFails, AttemptFails, AttemptLost, BurnDisc, VerifyDisc, DiscFails, Resume, GivenUp, Before, Burning
<1> QED
  BY <1>7, <1>8, <1>9, <1>10, <1>11, <1>12, <1>13 DEF Next

-----------------------------------------------------------------------------
(* The theorems *)

LEMMA DeliveryInitially == Init => DeliveryInv
<1> SUFFICES ASSUME Init PROVE DeliveryInv
  OBVIOUS
<1>1. <<>> \in Seq({}) /\ Len(<<>>) = 0 /\ DOMAIN <<>> = {}
  OBVIOUS
<1>2. run \in Runs /\ run.copies \in Nat /\ MaxFaults \in Nat /\ MaxResumes \in Nat /\ DeliverMaxAttempts \in Nat
  BY DeliveryAssumption DEF Init
<1>3. FlowInv
  <2>1. overlapped \in BOOLEAN /\ old = Idle
    BY DEF Init
  <2>2. Len(discs) = 0 /\ discs = <<>>
    BY <1>1 DEF Init
  <2>3. faults \in 0..MaxFaults /\ resumes \in 0..MaxResumes
    BY <1>2 DEF Init
  <2>4. wf = "report" /\ at = "escrow"
    BY DEF Init
  <2> QED
    BY <1>2, <2>1, <2>2, <2>3, <2>4 DEF FlowInv, BuildSteps, Before, Burning, Terminal
<1>4. ReportInv
  BY DEF Init, ReportInv, AtMostOne, Before, Burning, Terminal, Idle
<1>5. KitInv
  BY DEF Init, KitInv, AtMostOne, Burning, NoDisc, Idle
<1>6. Sequential(<<>>)
  BY <1>1 DEF Sequential
<1>7. DiscInv /\ EscrowInv /\ PostInv
  <2>1. DiscInv /\ EscrowInv
    BY <1>1, <1>6 DEF Init, DiscInv, EscrowInv
  <2>2. Range(<<>>) = {}
    BY <1>1 DEF Range
  <2>3. posts = <<>> /\ attempts = 0 /\ wf = "report"
    BY DEF Init
  <2>4. PostInv
    BY <1>1, <1>2, <1>6, <2>2, <2>3 DEF PostInv
  <2> QED
    BY <2>1, <2>4
<1> QED
  BY <1>3, <1>4, <1>5, <1>7 DEF DeliveryInv

LEMMA DeliveryPreserved == DeliveryInv /\ [Next]_vars => DeliveryInv'
<1> SUFFICES ASSUME DeliveryInv, [Next]_vars PROVE DeliveryInv'
  OBVIOUS
<1>1. CASE Next
  BY <1>1, FlowPreserved, ReportPreserved, KitPreserved, DiscPreserved, EscrowPreserved, PostPreserved DEF DeliveryInv
<1>2. CASE UNCHANGED vars
  <2>1. run' = run /\ discs' = discs
    BY <1>2 DEF vars, burn
  <2>2. /\ \A r : TrueReport(r, <<>>)' <=> TrueReport(r, <<>>)
        /\ \A m : WholeKit(m)' <=> WholeKit(m)
    BY <2>1, TruthStays
  <2>3. \A r : TrueReport(r, RebuildDiscs)' <=> TrueReport(r, RebuildDiscs)
    BY <2>1, KitStays DEF TrueReport, RebuildDiscs, ReportDiscs
  <2>4. (Buildable' <=> Buildable) /\ \A r : Image(r)' = Image(r)
    BY <2>1, KitStays
  <2>5. \A m : Posted(m)' <=> Posted(m)
    BY <2>1, KitStays DEF Posted, TrueReport, RebuildDiscs, ReportDiscs, WriteHealthProblems
  <2>6. FlowInv'
    BY <1>2 DEF vars, lost, files, burn, DeliveryInv, FlowInv
  <2>7. ReportInv'
    BY <1>2, <2>2, <2>3 DEF vars, lost, files, burn, DeliveryInv, ReportInv
  <2>8. KitInv'
    BY <1>2, <2>2, <2>4 DEF vars, lost, files, burn, DeliveryInv, KitInv
  <2>9. DiscInv' /\ EscrowInv'
    BY <1>2, <2>2 DEF vars, lost, files, burn, DeliveryInv, DiscInv, EscrowInv
  <2>10. PostInv'
    BY <1>2, <2>5 DEF vars, lost, files, burn, DeliveryInv, PostInv
  <2> QED
    BY <2>6, <2>7, <2>8, <2>9, <2>10 DEF DeliveryInv
<1> QED
  BY <1>1, <1>2

\* A true report is one of the run's: its type is as it should be.
LEMMA ReportTyped ==
    ASSUME run \in Runs, NEW r, NEW ds \in BoundedSeq(BOOLEAN, run.copies), TrueReport(r, ds)
    PROVE  r \in Report
<1>1. ASSUME NEW u \in ReportTapes
      PROVE  u \in {[barcode |-> t.barcode, contents |-> c, health |-> t.health] :
                       t \in Range(run.written), c \in Range(run.plan)}
  <2>1. PICK t \in Range(run.written) : u = [barcode |-> t.barcode, contents |-> run.plan[t.tapeIndex], health |-> t.health]
    BY DEF ReportTapes, OnTape
  <2>2. run.plan[t.tapeIndex] \in Range(run.plan)
    BY RunShape DEF Range
  <2> QED
    BY <2>1, <2>2
<1>2. run.dryRun \in BOOLEAN /\ run.escrow \in Escrows
  BY RunShape
<1> QED
  BY <1>1, <1>2 DEF TrueReport, Report

LEMMA DiscListTyped ==
    ASSUME FlowInv, DiscInv
    PROVE  <<>> \in BoundedSeq(BOOLEAN, run.copies) /\ RebuildDiscs \in BoundedSeq(BOOLEAN, run.copies)
<1>1. run.copies \in Nat /\ Len(discs) \in Nat /\ DOMAIN discs = 1..Len(discs) /\ Len(discs) <= run.copies
  BY RunShape, DiscsLength DEF FlowInv
<1>2. 0 \in 0..run.copies /\ Len(discs) \in 0..run.copies
  BY <1>1
<1>3. <<>> \in [1..0 -> BOOLEAN]
  OBVIOUS
<1>4. RebuildDiscs \in [1..Len(discs) -> BOOLEAN]
  <2>1. RebuildDiscs = [k \in 1..Len(discs) |-> discs[k].overwrote]
    BY <1>1 DEF RebuildDiscs, ReportDiscs
  <2>2. \A k \in 1..Len(discs) : discs[k].overwrote \in BOOLEAN
    BY <1>1 DEF DiscInv
  <2> QED
    BY <2>1, <2>2
<1>5. <<>> \in BoundedSeq(BOOLEAN, run.copies)
  BY <1>2, <1>3 DEF BoundedSeq, SeqOf
<1>6. RebuildDiscs \in BoundedSeq(BOOLEAN, run.copies)
  BY <1>2, <1>4 DEF BoundedSeq, SeqOf
<1> QED
  BY <1>5, <1>6

LEMMA DeliveryTyped == DeliveryInv => TypeOK
<1> SUFFICES ASSUME DeliveryInv PROVE TypeOK
  OBVIOUS
<1>1. FlowInv /\ ReportInv /\ KitInv /\ DiscInv /\ PostInv
  BY DEF DeliveryInv
<1>2. PICK B : B = BoundedSeq(BOOLEAN, run.copies)
  OBVIOUS
<1>3. \A r : TrueReport(r, <<>>) \/ TrueReport(r, RebuildDiscs) => r \in Report
  BY <1>1, DiscListTyped, ReportTyped DEF FlowInv
<1>4. ren \subseteq Report /\ oldRen \subseteq Report /\ pdf \subseteq Report
  BY <1>1, <1>3 DEF FlowInv, ReportInv, Before, Burning, Terminal
<1>5. Cardinality(ren) <= 1 /\ Cardinality(oldRen) <= 1 /\ Cardinality(pdf) <= 1
  BY <1>1, FewElements DEF ReportInv
<1>6. Cardinality(iso) <= 1 /\ Cardinality(man) <= 1 /\ Cardinality(tray.holds) <= 1
  BY <1>1, FewElements DEF KitInv
<1>7. /\ wf \in {"report", "burn", "verify", "pause", "rebuild", "deliver"} \cup Terminal
      /\ at \in BuildSteps \cup {Idle, "start", "post", "accepted"} /\ old \in BuildSteps \cup {Idle}
  BY <1>1 DEF FlowInv, Before, Burning, Terminal, BuildSteps, Idle
<1>8. overlapped \in BOOLEAN /\ tray.overwrote \in BOOLEAN
  BY <1>1 DEF FlowInv, KitInv
<1>9. /\ run \in Runs /\ Len(discs) <= run.copies /\ attempts \in 0..DeliverMaxAttempts /\ Len(posts) <= attempts
      /\ faults \in 0..MaxFaults /\ resumes \in 0..MaxResumes
  BY <1>1 DEF FlowInv, PostInv
<1> QED
  BY <1>4, <1>5, <1>6, <1>7, <1>8, <1>9 DEF TypeOK

\* The report lists the barcodes written and no others.
LEMMA TapesListed == {u.barcode : u \in ReportTapes} = {t.barcode : t \in Range(run.written)}
<1>1. ASSUME NEW u \in ReportTapes PROVE u.barcode \in {t.barcode : t \in Range(run.written)}
  <2>1. PICK t \in Range(run.written) : u = [barcode |-> t.barcode, contents |-> OnTape(t), health |-> t.health]
    BY DEF ReportTapes
  <2> QED
    BY <2>1
<1>2. ASSUME NEW t \in Range(run.written) PROVE t.barcode \in {u.barcode : u \in ReportTapes}
  <2>1. PICK u : u = [barcode |-> t.barcode, contents |-> OnTape(t), health |-> t.health]
    OBVIOUS
  <2>2. u \in ReportTapes
    BY <2>1 DEF ReportTapes
  <2> QED
    BY <2>1, <2>2
<1> QED
  BY <1>1, <1>2

LEMMA DeliveryImpliesDiscsSound == DeliveryInv => DiscsSound
<1> SUFFICES ASSUME DeliveryInv PROVE DiscsSound
  OBVIOUS
<1>1. ASSUME NEW k \in DOMAIN discs, NEW x \in discs[k].holds
      PROVE  /\ \A t \in Range(run.written) : [indexOf |-> t.barcode] \in Reads(x)
             /\ \E r \in {c.report : c \in {y \in Reads(x) : "report" \in DOMAIN y}} :
                    {u.barcode : u \in r.tapes} = {t.barcode : t \in Range(run.written)}
             /\ \A n \in DOMAIN x : n.dir = "bin" => x[n].kind = "static"
             /\ \E n \in DOMAIN x : n.dir = "bin"
             /\ \E n \in DOMAIN x : n.dir = "src"
  <2>1. WholeKit(x)
    BY <1>1 DEF DeliveryInv, DiscInv
  <2>2. ASSUME NEW t \in Range(run.written) PROVE [indexOf |-> t.barcode] \in Reads(x)
    <3>1. PICK j \in DOMAIN run.written : t = run.written[j]
      BY DEF Range
    <3>2. PICK n \in DOMAIN x : x[n] = [indexOf |-> run.written[j].barcode]
      BY <2>1 DEF WholeKit
    <3> QED
      BY <3>1, <3>2 DEF Reads
  <2>3. PICK n \in DOMAIN x : "report" \in DOMAIN x[n]
    BY <2>1 DEF WholeKit
  <2>4. PICK r : r = x[n].report
    OBVIOUS
  <2>5. r \in {c.report : c \in {y \in Reads(x) : "report" \in DOMAIN y}}
    BY <2>3, <2>4 DEF Reads
  <2>6. r.tapes = ReportTapes
    BY <2>1, <2>3, <2>4 DEF WholeKit, TrueReport
  <2>7. {u.barcode : u \in r.tapes} = {t.barcode : t \in Range(run.written)}
    BY <2>6, TapesListed
  <2> QED
    BY <2>1, <2>2, <2>5, <2>7 DEF WholeKit
<1>2. VerifiedIsKit
  BY <1>1 DEF VerifiedIsKit
<1>3. GoodDiscPasses
  BY DEF GoodDiscPasses, VerifyTree, DeliveryInv, KitInv, Burning
<1> QED
  BY <1>2, <1>3, DeliveryTyped DEF DiscsSound

LEMMA DeliveryImpliesEscrowHolds == DeliveryInv => EscrowHolds
<1> SUFFICES ASSUME DeliveryInv PROVE EscrowHolds
  OBVIOUS
<1>1. CASE run.escrow # "match"
  <2>1. pdf = {} /\ iso = {} /\ discs = <<>> /\ posts = <<>>
    BY <1>1 DEF DeliveryInv, EscrowInv
  <2>2. DOMAIN discs = {} /\ DOMAIN posts = {}
    BY <2>1
  <2> QED
    BY <2>1, <2>2 DEF EscrowHolds
<1>2. CASE run.escrow = "match"
  <2>1. ASSUME NEW k \in DOMAIN posts PROVE posts[k].report.identity = "match"
    <3>1. posts[k] \in Range(posts)
      BY DEF Range
    <3>2. Posted(posts[k])
      BY <3>1 DEF DeliveryInv, PostInv
    <3> QED
      BY <1>2, <3>2 DEF Posted, TrueReport
  <2>2. ASSUME NEW k \in DOMAIN discs, NEW x \in discs[k].holds, NEW c \in Reads(x), "report" \in DOMAIN c
        PROVE  c.report.identity = "match"
    <3>1. PICK n \in DOMAIN x : c = x[n]
      BY DEF Reads
    <3>2. WholeKit(x)
      BY DEF DeliveryInv, DiscInv
    <3>3. TrueReport(c.report, <<>>)
      BY <2>2, <3>1, <3>2 DEF WholeKit
    <3> QED
      BY <1>2, <3>3 DEF TrueReport
  <2> QED
    BY <1>2, <2>1, <2>2 DEF EscrowHolds
<1> QED
  BY <1>1, <1>2

\* The digests on a disc under a tape's barcode are those of the archives on that tape.
LEMMA SumsOfTape ==
    ASSUME BarcodesApart, NEW u \in ReportTapes
    PROVE  u.contents = {s.archive : s \in {l \in BuildSHA256Manifest : l.barcode = u.barcode}}
<1>1. PICK t \in Range(run.written) : u = [barcode |-> t.barcode, contents |-> OnTape(t), health |-> t.health]
  BY DEF ReportTapes
<1>2. ASSUME NEW a \in OnTape(t)
      PROVE  a \in {s.archive : s \in {l \in BuildSHA256Manifest : l.barcode = u.barcode}}
  <2>1. PICK l : l = [barcode |-> t.barcode, archive |-> a]
    OBVIOUS
  <2>2. l \in BuildSHA256Manifest
    BY <2>1 DEF BuildSHA256Manifest
  <2> QED
    BY <1>1, <2>1, <2>2
<1>3. ASSUME NEW l \in BuildSHA256Manifest, l.barcode = u.barcode
      PROVE  l.archive \in OnTape(t)
  <2>1. PICK v \in Range(run.written) : \E a \in OnTape(v) : l = [barcode |-> v.barcode, archive |-> a]
    BY DEF BuildSHA256Manifest
  <2>2. v.barcode = t.barcode
    BY <1>1, <1>3, <2>1
  <2>3. v = t
    BY <2>2 DEF BarcodesApart, Range
  <2> QED
    BY <2>1, <2>3
<1> QED
  BY <1>1, <1>2, <1>3

LEMMA PostedIsTrue ==
    ASSUME DeliveryInv, NEW m, Posted(m)
    PROVE  /\ \A t \in Range(run.written) : \E u \in m.report.tapes :
                  u.barcode = t.barcode /\ u.contents = run.plan[t.tapeIndex] /\ u.health = t.health
           /\ m.tapes = {u.barcode : u \in m.report.tapes}
           /\ m.problems = {u.barcode : u \in {v \in m.report.tapes : v.health = "poor"}}
           /\ \A d \in DOMAIN discs : \A x \in discs[d].holds : \A c \in Reads(x) :
                  /\ "report" \in DOMAIN c => c.report.tapes = m.report.tapes
                  /\ "sums" \in DOMAIN c => \A u \in m.report.tapes :
                          u.contents = {s.archive : s \in {l \in c.sums : l.barcode = u.barcode}}
<1>1. m.report.tapes = ReportTapes
  BY DEF Posted, TrueReport
<1>2. ASSUME NEW t \in Range(run.written)
      PROVE  \E u \in ReportTapes : u.barcode = t.barcode /\ u.contents = run.plan[t.tapeIndex] /\ u.health = t.health
  <2>1. PICK u : u = [barcode |-> t.barcode, contents |-> OnTape(t), health |-> t.health]
    OBVIOUS
  <2>2. u \in ReportTapes
    BY <2>1 DEF ReportTapes
  <2> QED
    BY <2>1, <2>2 DEF OnTape
<1>3. m.tapes = {u.barcode : u \in ReportTapes}
  BY TapesListed DEF Posted
<1>4. m.problems = {u.barcode : u \in {v \in ReportTapes : v.health = "poor"}}
  <2>1. ASSUME NEW b \in m.problems PROVE b \in {u.barcode : u \in {v \in ReportTapes : v.health = "poor"}}
    <3>1. PICK t \in Range(run.written) : t.health = "poor" /\ b = t.barcode
      BY DEF Posted, WriteHealthProblems
    <3>2. PICK u \in ReportTapes : u.barcode = t.barcode /\ u.health = t.health
      BY <1>2
    <3> QED
      BY <3>1, <3>2
  <2>2. ASSUME NEW u \in ReportTapes, u.health = "poor" PROVE u.barcode \in m.problems
    <3>1. PICK t \in Range(run.written) : u = [barcode |-> t.barcode, contents |-> OnTape(t), health |-> t.health]
      BY DEF ReportTapes
    <3>2. t.health = "poor" /\ u.barcode = t.barcode
      BY <2>2, <3>1
    <3> QED
      BY <3>2 DEF Posted, WriteHealthProblems
  <2>3. m.problems = WriteHealthProblems
    BY DEF Posted
  <2> QED
    BY <2>1, <2>2, <2>3 DEF WriteHealthProblems
<1>5. ASSUME NEW d \in DOMAIN discs, NEW x \in discs[d].holds, NEW c \in Reads(x)
      PROVE  /\ "report" \in DOMAIN c => c.report.tapes = ReportTapes
             /\ "sums" \in DOMAIN c => \A u \in ReportTapes :
                     u.contents = {s.archive : s \in {l \in c.sums : l.barcode = u.barcode}}
  <2>1. WholeKit(x)
    BY DEF DeliveryInv, DiscInv
  <2>2. PICK n \in DOMAIN x : c = x[n]
    BY DEF Reads
  <2>3. "report" \in DOMAIN c => c.report.tapes = ReportTapes
    BY <2>1, <2>2 DEF WholeKit, TrueReport
  <2>4. "sums" \in DOMAIN c => c.sums = BuildSHA256Manifest
    BY <2>1, <2>2 DEF WholeKit
  <2>5. BarcodesApart
    BY <2>1 DEF WholeKit
  <2> QED
    BY <2>3, <2>4, <2>5, SumsOfTape
<1> QED
  BY <1>1, <1>2, <1>3, <1>4, <1>5

LEMMA DeliveryImpliesDeliveredSound == DeliveryInv => DeliveredSound
<1> SUFFICES ASSUME DeliveryInv PROVE DeliveredSound
  OBVIOUS
<1>1. ASSUME NEW k \in DOMAIN posts PROVE Posted(posts[k]) /\ posts # <<>>
  BY DEF DeliveryInv, PostInv, Range
<1>2. ASSUME NEW k \in DOMAIN posts
      PROVE  /\ posts[k].dryRun = run.dryRun /\ posts[k].report.dryRun = run.dryRun
             /\ posts[k].report.generation \notin {"mixed", "unknown"} =>
                    \A t \in Range(run.written) : t.generation = posts[k].report.generation
  <2>1. PICK m : m = posts[k]
    OBVIOUS
  <2>2. PICK r : r = m.report
    OBVIOUS
  <2>3. TrueReport(r, RebuildDiscs) /\ m.dryRun = run.dryRun
    BY <1>1, <1>2, <2>1, <2>2 DEF Posted
  <2> QED
    BY <2>1, <2>2, <2>3 DEF TrueReport
<1>3. DeliveredTrue
  BY <1>1, <1>2, PostedIsTrue DEF DeliveredTrue
<1>4. ASSUME NEW k \in DOMAIN posts
      PROVE  posts[k].report.discs = [d \in DOMAIN discs |-> discs[d].overwrote] /\ Len(discs) = run.copies
  <2>1. posts[k].report.discs = RebuildDiscs
    <3>1. PICK r : r = posts[k].report
      OBVIOUS
    <3>2. TrueReport(r, RebuildDiscs)
      BY <1>1, <1>4, <3>1 DEF Posted
    <3> QED
      BY <3>1, <3>2 DEF TrueReport
  <2>2. Len(discs) = run.copies
    BY <1>1, <1>4 DEF DeliveryInv, PostInv
  <2> QED
    BY <2>1, <2>2 DEF RebuildDiscs, ReportDiscs
<1>5. DeliveredNamesDiscs
  BY <1>4 DEF DeliveredNamesDiscs
<1>6. OkMeansDelivered
  BY DEF OkMeansDelivered, DeliveryInv, FlowInv, ReportInv, PostInv
<1> QED
  BY <1>3, <1>5, <1>6 DEF DeliveredSound

\* VerifyDisc: a disc that passes verification holds the whole recovery kit of this run,
\* whichever attempts of BuildReport crashed or overlapped, however the barcodes are
\* mangled on the disc; and without an overlap a disc burned as it should be passes.
THEOREM VerifiedDiscsAreKits == Spec => []DiscsSound
BY DeliveryInitially, DeliveryPreserved, DeliveryImpliesDiscsSound, PTL DEF Spec

\* Deliver: every message the webhook accepted, retried ones included, tells of the tapes
\* written and the archives on them, agrees with the report and the digests on the discs
\* and names those discs; a run that succeeds has posted one.
THEOREM DeliveredReportsAreTrue == Spec => []DeliveredSound
BY DeliveryInitially, DeliveryPreserved, DeliveryImpliesDeliveredSound, PTL DEF Spec

\* verifyEscrowIdentity: no disc and no message leaves the system without an identity
\* that decrypts the archives, and a run without one writes neither report nor image.
THEOREM IdentityLeavesWithTheKit == Spec => []EscrowHolds
BY DeliveryInitially, DeliveryPreserved, DeliveryImpliesEscrowHolds, PTL DEF Spec
=============================================================================
