-------------------------- MODULE SwissEph_proofs --------------------------
(***************************************************************************)
(* Theorems about the positions of the Swiss Ephemeris: the structure one  *)
(* thread keeps between calls, for all programs, directories and dates.    *)
(***************************************************************************)
EXTENDS SwissEph, TLAPS

-----------------------------------------------------------------------------
(* The invariant.                                                           *)

\* What the structure holds
Names    == Bodies \cup {"mean", "oec"}
Sources  == {"SWI", "MOS", "none", "list"}
SegType  == [const : Nat, file : Nat, seg : Nat]
Evals    == [of : Names, src : Sources, t : AllDates, cof : SegType]
Day      == Dates \cup {0}
AnyFlags == Flags \cup {NoFlags, Renew}
PosType  == [true : SUBSET Evals, obs : SUBSET Evals, app : SUBSET Evals,
             spd : BOOLEAN, oec : Day, nut : Day, nutv : Day]
PlanType == [teval : Day, iephe : {"none", "MOS", "SWI"}, xflgs : AnyFlags,
             x : SUBSET Evals, xret : PosType, seg : SegType, era : Nat]
SaveType == [ipl : Planets \cup {"none"}, tsave : Day, flags : AnyFlags, x : PosType]
StarData == [of : Stars, src : {"none"}, t : {0}, cof : SegType]
Disks    == {d \in [Paths -> [Kinds \cup Texts -> SUBSET AllDates]] :
               \A p \in Paths : d[p]["sepl"] = d[p]["semo"] /\ d[p]["sepl"] \in {{}, AllDates}}
Swed     == [init : BOOLEAN, path : Paths, pathset : BOOLEAN,
             lasteph : {"none", "MOS", "SWI"}, pl : [Slots -> PlanType],
             save : [Areas -> SaveType], fid : [Kinds -> Nat],
             oec : Day, nut : Day, nutv : Day, nutspeed : BOOLEAN,
             last : [star : Stars \cup {"none"}, data : SUBSET StarData], disk : Disks]

\* An open file is one of the directory.  A planet's and the moon's have the
\* constants of all their bodies, and are closed under Moshier's theory; the
\* asteroids' may be without while the program asks by the other theory.
Consts(s) == \A b \in Bodies \ {"fict", "chiron"} : HasConstants(s, b)
Asteroids(s) == HasConstants(s, "chiron")
OnDisk(s) == \A k \in Kinds : s.fid[k] # 0 => Exists(s, k)
Closed(s) == s.lasteph = "MOS" => s.fid["sepl"] = 0 /\ s.fid["semo"] = 0
FilesOK(s) == s \in Swed /\ Consts(s) /\ OnDisk(s) /\ Closed(s)

\* The evaluations of x are by the theory eph, asteroids apart.
By(x, eph) == \A e \in x : e.src \in {eph, "none"} \/ e.of \in {"chiron", "fict"}
Pure(pos, eph) == By(pos.true, eph) /\ By(pos.obs, eph) /\ By(pos.app, eph)

\* The slots of the bodies that have a theory
Major == {"earth", "sunbary", "moon", "mars"}

\* The last call asked for the theory of the files, and there are files.
OnFiles(s) == Exists(s, "sepl") /\ s.lasteph = "SWI"

\* The position of a slot is of its date and theory, which is that of the
\* files only where there are files.
NotByTheory(p) == IF p.iephe = "MOS" THEN {"none"} ELSE {}
DatedOK(s, p) ==
  p.teval # 0 =>
    /\ \A e \in p.x : e.t = p.teval /\ e.src \in {p.iephe} \cup NotByTheory(p)
    /\ p.iephe = "SWI" => OnFiles(s)

\* The answer in a slot is by the theory of the flags it was computed for.
FlaggedOK(p) == p.xflgs \in Flags => Pure(p.xret, p.xflgs.eph)
TheoryOK(p) == p.xflgs \in Flags => p.iephe = p.xflgs.eph

\* The barycentric sun is from the files, or there is none.
SunOK(s) ==
  /\ \A e \in s.pl["sunbary"].x : e.src = "SWI"
  /\ s.pl["sunbary"].x # {} => OnFiles(s)

SlotsOK(s) ==
  /\ \A b \in Slots : FlaggedOK(s.pl[b])
  /\ \A b \in Major : DatedOK(s, s.pl[b]) /\ TheoryOK(s.pl[b])
  /\ SunOK(s)

\* An answer that is kept is by the theory of the flags it is kept for.
SavesOK(s) == \A a \in Areas :
  s.save[a].flags \in Flags => Pure(s.save[a].x, s.save[a].flags.eph)

Good(s) == FilesOK(s) /\ SlotsOK(s) /\ SavesOK(s)

\* Where obliquity and nutation are asked, files are open only under the
\* theory they are asked by, except the asteroids' under Moshier's: the call
\* that clears the save areas without closing the files finds no other.
NutOK(c, s) ==
  \A q \in c.asks : \A k \in Kinds :
    q.ipl = "NUT" /\ s.fid[k] # 0 =>
      s.lasteph = q.f.eph \/ s.lasteph = "MOS"

\* That file alone may have lost its constants: by a question for obliquity
\* and nutation by the theory of the files, while the last one was Moshier's.
NutBySwi(c) == \E n \in c.asks : n.ipl = "NUT" /\ n.f.eph = "SWI"
AsteroidsOK(c, ch, s) == Asteroids(s) \/ (ch /\ s.lasteph = "MOS" /\ NutBySwi(c))

\* What the program c may ask, before and after it has chosen its theory
MayAsk(c, ch) == IF ch THEN c.asks ELSE c.first

IInv ==
  /\ client \in Clients /\ chosen \in BOOLEAN
  /\ swed.disk = client.disk
  /\ Good(swed)
  /\ NutOK(client, swed)
  /\ AsteroidsOK(client, chosen, swed)
  /\ FlagTellsSource

-----------------------------------------------------------------------------
(* Files.                                                                   *)

\* What all calls below leave alone
Keeps(s, r) ==
  /\ r.path = s.path /\ r.disk = s.disk /\ r.lasteph = s.lasteph
  /\ r.save = s.save /\ r.oec = s.oec
  /\ Asteroids(s) => Asteroids(r)

\* The asteroids' constants are needed for an asteroid only; planets and moon
\* are read by the theory of the files.
Ready(s, b) == IF b = "chiron" THEN Asteroids(s) ELSE s.lasteph = "SWI"

\* The slots B keep what was computed; coefficients may change.
SameSlot(p, q) ==
  /\ q.teval = p.teval /\ q.iephe = p.iephe /\ q.xflgs = p.xflgs
  /\ q.x = p.x /\ q.xret = p.xret
SameSlots(s, r, B) == \A b \in B : SameSlot(s.pl[b], r.pl[b])

\* A step of the file functions for the file k
FileStep(s, r, k) ==
  /\ FilesOK(r) /\ Keeps(s, r) /\ SameSlots(s, r, Slots)
  /\ \A j \in Kinds \ {k} : r.fid[j] = s.fid[j]

FileBodies == Bodies \ {"fict"}

LEMMA DateFacts ==
  /\ AllDates \subseteq Nat \ {0} /\ Dates \subseteq AllDates
  /\ \A t \in Dates : LT(t) \in AllDates
  /\ 0 \notin Dates
<1>1. \A t \in Dates : t \in Nat /\ t > 1
  BY DatesAssumption
<1>2. \A t \in Dates : LT(t) \in Nat /\ LT(t) > 0
  BY <1>1 DEF LT
<1> QED
  BY <1>1, <1>2 DEF AllDates

\* Moving files and coefficients leaves the rest of the structure alone.
SameRest(s, r) ==
  /\ r.path = s.path /\ r.disk = s.disk /\ r.lasteph = s.lasteph
  /\ r.save = s.save /\ r.oec = s.oec

LEMMA KindOf == ASSUME NEW b PROVE FileOf(b) \in Kinds
BY DEF FileOf, Kinds

\* drop_file closes the file when it does not hold the date.
LEMMA DropFile ==
  ASSUME NEW s, FilesOK(s), NEW b \in FileBodies, NEW t \in AllDates, NEW k, k = FileOf(b)
  PROVE  FileStep(s, drop_file(s, k, t, b), k)
<1> PICK r : r = drop_file(s, k, t, b)
  OBVIOUS
<1>1. CASE r = s
  BY <1>1 DEF FileStep, FilesOK, Keeps, SameSlots, SameSlot
<1>2. CASE r = [s EXCEPT !.fid[k] = 0, !.pl[b].seg = NoSeg]
  <2>1. k \in Kinds /\ b \in Slots /\ NoSeg \in SegType
    BY KindOf DEF Slots, FileBodies, NoSeg, SegType
  <2>2. s \in Swed
    BY DEF FilesOK
  <2> PICK fid : fid = [s.fid EXCEPT ![k] = 0]
    OBVIOUS
  <2> PICK pl : pl = [s.pl EXCEPT ![b] = [s.pl[b] EXCEPT !.seg = NoSeg]]
    OBVIOUS
  <2>3. r = [s EXCEPT !.fid = fid, !.pl = pl]
    BY <1>2
  <2>4. fid \in [Kinds -> Nat]
    BY <2>1, <2>2 DEF Swed
  <2>5. pl \in [Slots -> PlanType]
    <3>1. [s.pl[b] EXCEPT !.seg = NoSeg] \in PlanType
      BY <2>1, <2>2 DEF Swed, PlanType
    <3> QED
      BY <2>2, <3>1 DEF Swed
  <2>6. r \in Swed /\ r.fid = fid /\ r.pl = pl /\ SameRest(s, r)
    BY <2>2, <2>3, <2>4, <2>5 DEF Swed, SameRest
  <2>7. SameSlots(s, r, Slots) /\ \A c \in Slots : r.pl[c].era = s.pl[c].era
    BY <2>1, <2>2, <2>6 DEF Swed, PlanType, SameSlots, SameSlot
  <2>8. \A j \in Kinds : r.fid[j] = IF j = k THEN 0 ELSE s.fid[j]
    BY <2>1, <2>2, <2>6 DEF Swed
  <2>9. FilesOK(r)
    BY <2>6, <2>7, <2>8, KindOf
    DEF FilesOK, SameRest, Consts, HasConstants, OnDisk, Closed, Exists, Covered, Slots, Kinds
  <2>10. Asteroids(s) => Asteroids(r)
    BY <2>7, <2>8, KindOf DEF Asteroids, HasConstants, Slots, Bodies
  <2>11. Keeps(s, r)
    BY <2>6, <2>10 DEF Keeps, SameRest
  <2> QED
    BY <2>7, <2>8, <2>9, <2>11 DEF FileStep
<1> QED
  BY <1>1, <1>2 DEF drop_file

\* read_const leaves the constants of the file with all its bodies.
LEMMA ReadConst ==
  ASSUME NEW s, FilesOK(s), NEW k \in Kinds, Exists(s, k), NEW era \in Nat,
         k = "seas" \/ s.lasteph = "SWI"
  PROVE  FileStep(s, read_const(s, k, era), k) /\ read_const(s, k, era).fid[k] = era
<1> PICK r : r = read_const(s, k, era)
  OBVIOUS
<1> PICK fid : fid = [s.fid EXCEPT ![k] = era]
  OBVIOUS
<1> PICK pl : pl = [b \in Slots |-> IF b \in FileBodies /\ FileOf(b) = k
                                     THEN [s.pl[b] EXCEPT !.era = era] ELSE s.pl[b]]
  OBVIOUS
<1>1. s \in Swed /\ r = [s EXCEPT !.fid = fid, !.pl = pl]
  BY DEF FilesOK, read_const, FileBodies
<1>2. fid \in [Kinds -> Nat] /\ \A j \in Kinds : fid[j] = IF j = k THEN era ELSE s.fid[j]
  BY <1>1 DEF Swed
<1>3. \A b \in Slots : /\ pl[b] \in PlanType
                       /\ SameSlot(s.pl[b], pl[b])
                       /\ pl[b].era = IF b \in FileBodies /\ FileOf(b) = k THEN era
                                      ELSE s.pl[b].era
  <2> SUFFICES ASSUME NEW b \in Slots
               PROVE  /\ pl[b] \in PlanType
                      /\ SameSlot(s.pl[b], pl[b])
                      /\ pl[b].era = IF b \in FileBodies /\ FileOf(b) = k THEN era
                                     ELSE s.pl[b].era
    OBVIOUS
  <2>1. PICK p \in PlanType : p = s.pl[b]
    BY <1>1 DEF Swed
  <2>2. PICK e \in PlanType : e = [p EXCEPT !.era = era]
    BY <2>1 DEF PlanType
  <2>3. e.era = era /\ SameSlot(p, e) /\ SameSlot(p, p)
    BY <2>2 DEF PlanType, SameSlot
  <2>4. pl[b] = IF b \in FileBodies /\ FileOf(b) = k THEN e ELSE p
    BY <2>1, <2>2
  <2> QED
    BY <2>1, <2>2, <2>3, <2>4
<1>4. pl \in [Slots -> PlanType]
  BY <1>3
<1>5. r \in Swed /\ r.fid = fid /\ r.pl = pl /\ SameRest(s, r)
  BY <1>1, <1>2, <1>4 DEF Swed, SameRest
<1>6. SameSlots(s, r, Slots)
  BY <1>3, <1>5 DEF SameSlots
<1>7. Consts(r)
  <2> SUFFICES ASSUME NEW b \in Bodies \ {"fict", "chiron"} PROVE HasConstants(r, b)
    BY DEF Consts
  <2>1. HasConstants(s, b) /\ b \in Slots /\ b \in FileBodies
    BY DEF FilesOK, Consts, Slots, FileBodies
  <2>2. CASE FileOf(b) = k
    <3>1. r.fid[k] = era /\ r.pl[b].era = era
      BY <1>2, <1>3, <1>5, <2>1, <2>2
    <3> QED
      BY <2>2, <3>1 DEF HasConstants
  <2>3. CASE FileOf(b) # k
    BY <1>2, <1>3, <1>5, <2>1, <2>3, KindOf DEF HasConstants
  <2> QED
    BY <2>2, <2>3
<1>8. OnDisk(r)
  BY <1>2, <1>5 DEF OnDisk, FilesOK, SameRest, Exists, Covered
<1>9. Asteroids(s) => Asteroids(r)
  BY <1>2, <1>3, <1>5, KindOf DEF Asteroids, HasConstants, Slots, FileBodies, Bodies
<1>10. Keeps(s, r)
  BY <1>5, <1>9 DEF Keeps, SameRest
<1>11. Closed(r)
  BY <1>2, <1>5 DEF Closed, FilesOK, SameRest, Kinds
<1> QED
  BY <1>2, <1>5, <1>6, <1>7, <1>8, <1>10, <1>11 DEF FileStep, FilesOK

\* File steps follow one another.
LEMMA FileSteps ==
  ASSUME NEW s, NEW r, NEW q, NEW k, FileStep(s, r, k), FileStep(r, q, k)
  PROVE  FileStep(s, q, k)
BY DEF FileStep, Keeps, SameSlots, SameSlot

LEMMA SameFiles ==
  ASSUME NEW s, FilesOK(s), NEW k PROVE FileStep(s, s, k)
BY DEF FileStep, Keeps, SameSlots, SameSlot

\* An era is a positive number.
LEMMA EraFacts ==
  ASSUME NEW t \in AllDates PROVE EraOf[t] \in Nat \ {0} /\ SegOf[t] \in Nat \ {0}
BY DatesAssumption

\* swi_fopen finds a file that holds the date's era.
LEMMA Fopen ==
  ASSUME NEW s, FilesOK(s), NEW k \in Kinds, NEW t \in AllDates,
         k = "seas" \/ s.lasteph = "SWI",
         NEW r, r = swi_fopen(s, k, t)
  PROVE  /\ FileStep(s, r.s, k) /\ r.rc \in {"OK", "NA"} /\ r.x = {}
         /\ r = Result(r.s, r.rc, r.x)
         /\ r.rc = "OK" <=> r.s.fid[k] # 0
         /\ r.rc = "OK" => Exists(s, k)
         /\ s.fid[k] # 0 => r.s = s
         /\ s.fid[k] = 0 /\ r.rc = "OK" => r.s.fid[k] = EraOf[t]
         /\ t \in Covered(s, k) => r.rc = "OK"
<1>1. CASE s.fid[k] # 0
  BY <1>1, SameFiles DEF swi_fopen, Result, FilesOK, OnDisk
<1>2. CASE s.fid[k] = 0 /\ \E d \in Covered(s, k) : EraOf[d] = EraOf[t]
  <2>1. Exists(s, k)
    BY <1>2 DEF Exists
  <2>2. r.s = read_const(s, k, EraOf[t]) /\ r.rc = "OK" /\ r.x = {}
    BY <1>2 DEF swi_fopen, Result
  <2>3. EraOf[t] \in Nat \ {0}
    BY EraFacts
  <2>4. FileStep(s, r.s, k) /\ r.s.fid[k] = EraOf[t]
    BY <2>1, <2>2, <2>3, ReadConst
  <2> QED
    BY <1>2, <2>1, <2>2, <2>3, <2>4 DEF swi_fopen, Result
<1>3. CASE s.fid[k] = 0 /\ ~\E d \in Covered(s, k) : EraOf[d] = EraOf[t]
  BY <1>3, SameFiles DEF swi_fopen, Result
<1> QED
  BY <1>1, <1>2, <1>3

\* A segment is read: only the coefficients of the body change.
LEMMA NewSegment ==
  ASSUME NEW s, FilesOK(s), NEW b \in FileBodies, NEW t \in AllDates, NEW k, k = FileOf(b),
         Ready(s, b), s.fid[k] # 0, NEW r, r = get_new_segment(s, k, t, b)
  PROVE  FileStep(s, r.s, k) /\ r.rc = "OK" /\ r.s.fid[k] = s.fid[k]
<1> PICK c : c = [const |-> s.pl[b].era, file |-> s.fid[k], seg |-> SegOf[t]]
  OBVIOUS
<1>1. /\ s \in Swed /\ k \in Kinds /\ b \in Slots
      /\ s.pl[b].era # 0
  BY KindOf DEF FilesOK, Consts, Ready, Asteroids, HasConstants, Slots, FileBodies
<1>2. r.s = [s EXCEPT !.pl[b].seg = c] /\ r.rc = "OK"
  BY <1>1 DEF get_new_segment, Result
<1>3. c \in SegType
  BY <1>1, EraFacts DEF SegType, Swed, PlanType
<1> PICK pl : pl = [s.pl EXCEPT ![b] = [s.pl[b] EXCEPT !.seg = c]]
  OBVIOUS
<1>4. pl \in [Slots -> PlanType]
  <2>1. [s.pl[b] EXCEPT !.seg = c] \in PlanType
    BY <1>1, <1>3 DEF Swed, PlanType
  <2> QED
    BY <1>1, <2>1 DEF Swed
<1> PICK q : q = r.s
  OBVIOUS
<1>5. q = [s EXCEPT !.pl = pl]
  BY <1>2
<1>6. q \in Swed /\ q.fid = s.fid /\ q.pl = pl /\ SameRest(s, q)
  BY <1>1, <1>4, <1>5 DEF Swed, SameRest
<1>7. SameSlots(s, q, Slots) /\ \A d \in Slots : q.pl[d].era = s.pl[d].era
  BY <1>1, <1>6 DEF Swed, PlanType, SameSlots, SameSlot
<1>8. FilesOK(q)
  BY <1>6, <1>7, KindOf
  DEF FilesOK, SameRest, Consts, HasConstants, OnDisk, Closed, Exists, Covered, Slots
<1>9. Keeps(s, q)
  BY <1>6, <1>7, KindOf DEF Keeps, SameRest, Asteroids, HasConstants, Slots, Bodies
<1> QED
  BY <1>2, <1>6, <1>7, <1>8, <1>9 DEF FileStep

\* evaluate gives the body at the date, by the files.
LEMMA Evaluate ==
  ASSUME NEW s, FilesOK(s), NEW b \in FileBodies, NEW t \in AllDates, NEW k, k = FileOf(b),
         Ready(s, b), s.fid[k] # 0, NEW r, r = evaluate(s, k, t, b)
  PROVE  /\ FileStep(s, r.s, k) /\ r.rc = "OK" /\ r = Result(r.s, r.rc, r.x)
         /\ \E c \in SegType : r.x = {Eval(b, "SWI", t, c)}
<1> PICK g : g = get_new_segment(s, k, t, b)
  OBVIOUS
<1>1. FileStep(s, g.s, k) /\ g.rc = "OK"
  BY NewSegment
<1>2. \E q : /\ FileStep(s, q, k)
             /\ r = Result(q, "OK", {Eval(b, "SWI", t, q.pl[b].seg)})
  <2>1. CASE SegmentCovers(s.pl[b].seg, t)
    BY <2>1, SameFiles DEF evaluate, Then, Result
  <2>2. CASE ~SegmentCovers(s.pl[b].seg, t)
    <3>1. r = Result(g.s, "OK", {Eval(b, "SWI", t, g.s.pl[b].seg)})
      BY <1>1, <2>2 DEF evaluate, Then
    <3> QED
      BY <1>1, <3>1
  <2> QED
    BY <2>1, <2>2
<1> PICK q : /\ FileStep(s, q, k)
             /\ r = Result(q, "OK", {Eval(b, "SWI", t, q.pl[b].seg)})
  BY <1>2
<1>3. q.pl[b].seg \in SegType
  BY DEF FileStep, FilesOK, Swed, PlanType, Slots, FileBodies
<1> QED
  BY <1>3 DEF Result

\* What is computed for the date: evaluations of that date by the files
OfDate(x, t) == x \subseteq Evals /\ \A e \in x : e.t = t
FromFiles(x, t) == OfDate(x, t) /\ \A e \in x : e.src = "SWI"

LEMMA OneFromFiles ==
  ASSUME NEW b \in FileBodies, NEW t \in AllDates, NEW c \in SegType
  PROVE  /\ FromFiles({Eval(b, "SWI", t, c)}, t)
         /\ \A e \in {Eval(b, "SWI", t, c)} : e.of = b
BY DEF FromFiles, OfDate, Eval, Evals, Names, Sources, FileBodies

\* One body from its file: it is there when the file holds the date, and
\* planet and lunar files hold all dates.
LEMMA FromFile ==
  ASSUME NEW s, FilesOK(s), NEW b \in FileBodies, NEW t \in AllDates, NEW k, k = FileOf(b),
         Ready(s, b), NEW r, r = from_file(s, k, t, b)
  PROVE  /\ FileStep(s, r.s, k) /\ r.rc \in {"OK", "NA"}
         /\ r = Result(r.s, r.rc, r.x)
         /\ r.rc = "OK" => /\ Exists(s, k) /\ FromFiles(r.x, t)
                           /\ \A e \in r.x : e.of = b
         /\ r.rc = "NA" => r.x = {}
         /\ Exists(s, k) /\ b # "chiron" => r.rc = "OK"
<1> PICK d : d = drop_file(s, k, t, b)
  OBVIOUS
<1> PICK o : o = swi_fopen(d, k, t)
  OBVIOUS
<1>0. k \in Kinds
  BY KindOf
<1>1. FileStep(s, d, k) /\ FilesOK(d)
  BY DropFile DEF FileStep
<1>2. d.fid[k] # 0 => InRange(d, k, t)
  <2>1. CASE s.fid[k] # 0 /\ ~InRange(s, k, t)
    <3>1. d = [s EXCEPT !.fid[k] = 0, !.pl[b].seg = NoSeg]
      BY <2>1 DEF drop_file
    <3>2. d.fid[k] = 0
      BY <1>0, <3>1 DEF FilesOK, Swed
    <3> QED
      BY <3>2
  <2>2. CASE ~(s.fid[k] # 0 /\ ~InRange(s, k, t))
    <3>1. d = s
      BY <2>2 DEF drop_file
    <3> QED
      BY <2>2, <3>1
  <2> QED
    BY <2>1, <2>2
<1>3. /\ FileStep(d, o.s, k) /\ o.rc \in {"OK", "NA"} /\ o.x = {}
      /\ o = Result(o.s, o.rc, o.x)
      /\ o.rc = "OK" <=> o.s.fid[k] # 0
      /\ o.rc = "OK" => Exists(d, k)
      /\ d.fid[k] # 0 => o.s = d
      /\ d.fid[k] = 0 /\ o.rc = "OK" => o.s.fid[k] = EraOf[t]
      /\ t \in Covered(d, k) => o.rc = "OK"
  <2>1. k = "seas" \/ d.lasteph = "SWI"
    BY <1>1 DEF Ready, FileOf, FileStep, Keeps
  <2> QED
    BY <1>0, <1>1, <2>1, Fopen
<1>4. FileStep(s, o.s, k) /\ FilesOK(o.s) /\ Ready(o.s, b)
  <2>1. FileStep(s, o.s, k)
    BY <1>1, <1>3, FileSteps
  <2> QED
    BY <2>1 DEF FileStep, Keeps, Ready
<1>5. Covered(d, k) = Covered(s, k) /\ Covered(o.s, k) = Covered(s, k)
  BY <1>1, <1>4 DEF Covered, FileStep, Keeps
<1>6. Exists(s, k) /\ b # "chiron" => t \in Covered(s, k)
  <2>1. CASE b # "chiron"
    <3>1. k \in {"sepl", "semo"}
      BY <2>1 DEF FileOf
    <3>2. s.disk[s.path][k] \in {{}, AllDates}
      BY <3>1 DEF FilesOK, Swed, Disks
    <3> QED
      BY <3>2 DEF Exists, Covered
  <2> QED
    BY <2>1
<1>7. o.rc = "OK" /\ t \in Covered(s, k) => InRange(o.s, k, t)
  BY <1>2, <1>3, <1>5 DEF InRange
<1>8. CASE o.rc # "OK"
  <2>1. r = o
    BY <1>8 DEF from_file, Then
  <2> QED
    BY <1>3, <1>4, <1>5, <1>6, <1>8, <2>1
<1>9. CASE o.rc = "OK" /\ ~InRange(o.s, k, t)
  <2>1. r = Result(o.s, "NA", {})
    BY <1>9 DEF from_file, Then
  <2> QED
    BY <1>4, <1>6, <1>7, <1>9, <2>1 DEF Result
<1>10. CASE o.rc = "OK" /\ InRange(o.s, k, t)
  <2>1. r = evaluate(o.s, k, t, b)
    BY <1>10 DEF from_file, Then
  <2>2. /\ FileStep(o.s, r.s, k) /\ r.rc = "OK" /\ r = Result(r.s, r.rc, r.x)
        /\ \E c \in SegType : r.x = {Eval(b, "SWI", t, c)}
    BY <1>3, <1>4, <1>10, <2>1, Evaluate
  <2>3. FileStep(s, r.s, k)
    BY <1>4, <2>2, FileSteps
  <2>4. Exists(s, k)
    BY <1>3, <1>5, <1>10 DEF Exists
  <2> QED
    BY <2>2, <2>3, <2>4, OneFromFiles
<1> QED
  BY <1>8, <1>9, <1>10

-----------------------------------------------------------------------------
(* Slots.                                                                   *)

\* One slot is replaced.
Put(s, b, p) == [s EXCEPT !.pl = [s.pl EXCEPT ![b] = p]]

LEMMA PutSlot ==
  ASSUME NEW s, FilesOK(s), NEW b \in Slots, NEW p \in PlanType, p.era = s.pl[b].era,
         NEW r, r = Put(s, b, p)
  PROVE  /\ FilesOK(r) /\ Keeps(s, r) /\ r.fid = s.fid
         /\ r.pl[b] = p /\ \A c \in Slots \ {b} : r.pl[c] = s.pl[c]
<1>1. s \in Swed
  BY DEF FilesOK
<1>2. PICK pl : pl = [s.pl EXCEPT ![b] = p]
  OBVIOUS
<1>3. /\ pl \in [Slots -> PlanType]
      /\ pl[b] = p /\ \A c \in Slots \ {b} : pl[c] = s.pl[c]
  BY <1>1, <1>2 DEF Swed
<1>4. r = [s EXCEPT !.pl = pl]
  BY <1>2 DEF Put
<1>5. r \in Swed /\ r.pl = pl /\ r.fid = s.fid /\ SameRest(s, r)
  BY <1>1, <1>3, <1>4 DEF Swed, SameRest
<1>6. \A c \in Slots : r.pl[c].era = s.pl[c].era
  BY <1>3, <1>5
<1>7. FilesOK(r)
  BY <1>5, <1>6
  DEF FilesOK, SameRest, Consts, HasConstants, OnDisk, Closed, Exists, Covered, Slots
<1>8. Keeps(s, r)
  BY <1>5, <1>6 DEF Keeps, SameRest, Asteroids, HasConstants, Slots, Bodies
<1> QED
  BY <1>3, <1>5, <1>7, <1>8

\* The C functions change a slot field by field.
SetTeval(s, b, v) == [s EXCEPT !.pl[b].teval = v]
SetX(s, b, x) == [s EXCEPT !.pl[b].x = x]
Theories == {"none", "MOS", "SWI"}
SetIephe(s, b, i) == [s EXCEPT !.pl[b].iephe = i]
SetAnswer(s, b, x, f) ==
  [s EXCEPT !.pl[b].xret = x, !.pl[b].xflgs = f, !.pl[b].iephe = f.eph]

LEMMA PutTeval ==
  ASSUME NEW s, FilesOK(s), NEW b \in Slots, NEW v \in Day,
         NEW r, r = SetTeval(s, b, v)
  PROVE  /\ FilesOK(r) /\ Keeps(s, r) /\ r.fid = s.fid
         /\ r.pl[b].teval = v
         /\ SameSlot([s.pl[b] EXCEPT !.teval = v], r.pl[b])
         /\ \A c \in Slots \ {b} : r.pl[c] = s.pl[c]
<1>1. PICK p : p = [s.pl[b] EXCEPT !.teval = v]
  OBVIOUS
<1>2. p \in PlanType /\ p.era = s.pl[b].era /\ p.teval = v
  <2>1. PICK o \in PlanType : o = s.pl[b]
    BY DEF FilesOK, Swed
  <2>2. p = [o EXCEPT !.teval = v]
    BY <1>1, <2>1
  <2> QED
    BY <2>1, <2>2 DEF PlanType
<1>3. r = Put(s, b, p)
  BY <1>1 DEF Put, SetTeval
<1>4. /\ FilesOK(r) /\ Keeps(s, r) /\ r.fid = s.fid
      /\ r.pl[b] = p /\ \A c \in Slots \ {b} : r.pl[c] = s.pl[c]
  BY <1>2, <1>3, PutSlot
<1> QED
  BY <1>1, <1>2, <1>4 DEF SameSlot

LEMMA PutX ==
  ASSUME NEW s, FilesOK(s), NEW b \in Slots, NEW x \in SUBSET Evals,
         NEW r, r = SetX(s, b, x)
  PROVE  /\ FilesOK(r) /\ Keeps(s, r) /\ r.fid = s.fid
         /\ r.pl[b] = [s.pl[b] EXCEPT !.x = x] /\ r.pl[b] \in PlanType
         /\ \A c \in Slots \ {b} : r.pl[c] = s.pl[c]
<1>1. PICK p : p = [s.pl[b] EXCEPT !.x = x]
  OBVIOUS
<1>2. p \in PlanType /\ p.era = s.pl[b].era
  BY <1>1 DEF FilesOK, Swed, PlanType
<1>3. r = Put(s, b, p)
  BY <1>1 DEF Put, SetX
<1>4. /\ FilesOK(r) /\ Keeps(s, r) /\ r.fid = s.fid
      /\ r.pl[b] = p /\ \A c \in Slots \ {b} : r.pl[c] = s.pl[c]
  BY <1>2, <1>3, PutSlot
<1> QED
  BY <1>1, <1>2, <1>4

LEMMA PutStore ==
  ASSUME NEW s, FilesOK(s), NEW b \in Slots, NEW t \in Day, NEW x \in SUBSET Evals,
         NEW i \in {"none", "MOS", "SWI"}, NEW r, r = Store(s, b, t, x, i)
  PROVE  /\ FilesOK(r) /\ Keeps(s, r) /\ r.fid = s.fid
         /\ r.pl[b] \in PlanType
         /\ r.pl[b].teval = t /\ r.pl[b].x = x /\ r.pl[b].iephe = i
         /\ r.pl[b].xflgs = Renew
         /\ \A c \in Slots \ {b} : r.pl[c] = s.pl[c]
<1>1. PICK p : p = [s.pl[b] EXCEPT !.teval = t, !.x = x, !.xflgs = Renew, !.iephe = i]
  OBVIOUS
<1>2. /\ p \in PlanType /\ p.era = s.pl[b].era
      /\ p.teval = t /\ p.x = x /\ p.iephe = i /\ p.xflgs = Renew
  <2>1. PICK o \in PlanType : o = s.pl[b]
    BY DEF FilesOK, Swed
  <2>2. p = [o EXCEPT !.teval = t, !.x = x, !.xflgs = Renew, !.iephe = i]
    BY <1>1, <2>1
  <2>3. Renew \in AnyFlags
    BY DEF AnyFlags
  <2> QED
    BY <2>1, <2>2, <2>3 DEF PlanType
<1>3. r = Put(s, b, p)
  BY <1>1 DEF Put, Store
<1>4. /\ FilesOK(r) /\ Keeps(s, r) /\ r.fid = s.fid
      /\ r.pl[b] = p /\ \A c \in Slots \ {b} : r.pl[c] = s.pl[c]
  BY <1>2, <1>3, PutSlot
<1> QED
  BY <1>2, <1>4

LEMMA PutIephe ==
  ASSUME NEW s, FilesOK(s), NEW b \in Slots, NEW i \in Theories,
         NEW r, r = SetIephe(s, b, i)
  PROVE  /\ FilesOK(r) /\ Keeps(s, r) /\ r.fid = s.fid
         /\ r.pl[b].teval = s.pl[b].teval /\ r.pl[b].x = s.pl[b].x
         /\ r.pl[b].xret = s.pl[b].xret /\ r.pl[b].xflgs = s.pl[b].xflgs
         /\ r.pl[b].iephe = i
         /\ \A c \in Slots \ {b} : r.pl[c] = s.pl[c]
<1>1. PICK p : p = [s.pl[b] EXCEPT !.iephe = i]
  OBVIOUS
<1>2. /\ p \in PlanType /\ p.era = s.pl[b].era
      /\ p.teval = s.pl[b].teval /\ p.x = s.pl[b].x
      /\ p.xret = s.pl[b].xret /\ p.xflgs = s.pl[b].xflgs /\ p.iephe = i
  BY <1>1 DEF FilesOK, Swed, PlanType, Theories
<1>3. r = Put(s, b, p)
  BY <1>1 DEF Put, SetIephe
<1>4. /\ FilesOK(r) /\ Keeps(s, r) /\ r.fid = s.fid
      /\ r.pl[b] = p /\ \A c \in Slots \ {b} : r.pl[c] = s.pl[c]
  BY <1>2, <1>3, PutSlot
<1> QED
  BY <1>2, <1>4

LEMMA PutAnswer ==
  ASSUME NEW s, FilesOK(s), NEW b \in Slots, NEW x \in PosType, NEW f \in Flags,
         NEW r, r = SetAnswer(s, b, x, f)
  PROVE  /\ FilesOK(r) /\ Keeps(s, r) /\ r.fid = s.fid
         /\ r.pl[b].teval = s.pl[b].teval /\ r.pl[b].x = s.pl[b].x
         /\ r.pl[b].xret = x /\ r.pl[b].xflgs = f /\ r.pl[b].iephe = f.eph
         /\ \A c \in Slots \ {b} : r.pl[c] = s.pl[c]
<1>1. PICK o \in PlanType : o = s.pl[b]
  BY DEF FilesOK, Swed
<1>2. PICK p : p = [o EXCEPT !.xret = x, !.xflgs = f, !.iephe = f.eph]
  OBVIOUS
<1>3. f \in AnyFlags /\ f.eph \in {"none", "MOS", "SWI"}
  BY DEF AnyFlags, Flags
<1>4. /\ p \in PlanType /\ p.era = o.era
      /\ p.teval = o.teval /\ p.x = o.x /\ p.xret = x /\ p.xflgs = f /\ p.iephe = f.eph
  BY <1>1, <1>2, <1>3 DEF PlanType
<1>5. r = Put(s, b, p)
  BY <1>1, <1>2 DEF Put, SetAnswer
<1>6. /\ FilesOK(r) /\ Keeps(s, r) /\ r.fid = s.fid
      /\ r.pl[b] = p /\ \A c \in Slots \ {b} : r.pl[c] = s.pl[c]
  BY <1>1, <1>4, <1>5, PutSlot
<1> QED
  BY <1>1, <1>4, <1>6

\* The invariant of the structure survives what only touches files ...
LEMMA GoodFrame ==
  ASSUME NEW s, Good(s), NEW r, FilesOK(r), Keeps(s, r), SameSlots(s, r, Slots)
  PROVE  Good(r)
<1>1. OnFiles(r) <=> OnFiles(s)
  BY DEF Keeps, OnFiles, Exists, Covered
<1>2. SlotsOK(r)
  <2>1. \A b \in Slots : FlaggedOK(r.pl[b])
    BY DEF Good, SlotsOK, SameSlots, SameSlot, FlaggedOK
  <2>2. \A b \in Major : DatedOK(r, r.pl[b]) /\ TheoryOK(r.pl[b])
    <3> SUFFICES ASSUME NEW b \in Major
                 PROVE  DatedOK(r, r.pl[b]) /\ TheoryOK(r.pl[b])
      OBVIOUS
    <3>1. SameSlot(s.pl[b], r.pl[b])
      BY DEF SameSlots, Major, Slots, Bodies
    <3>2. DatedOK(s, s.pl[b]) /\ TheoryOK(s.pl[b])
      BY DEF Good, SlotsOK
    <3> QED
      BY <1>1, <3>1, <3>2 DEF Keeps, SameSlot, DatedOK, TheoryOK, NotByTheory
  <2>3. SunOK(r)
    BY <1>1 DEF Good, SlotsOK, SunOK, SameSlots, SameSlot, Keeps, Slots, Bodies
  <2> QED
    BY <2>1, <2>2, <2>3 DEF SlotsOK
<1>3. SavesOK(r)
  BY DEF Good, SavesOK, Keeps
<1> QED
  BY <1>2, <1>3 DEF Good

\* ... and what puts a right position, or a right answer, into a slot.
SlotOK(s, b, p) ==
  /\ FlaggedOK(p)
  /\ b \in Major => DatedOK(s, p) /\ TheoryOK(p)
  /\ b = "sunbary" => /\ \A e \in p.x : e.src = "SWI"
                      /\ p.x # {} => OnFiles(s)

LEMMA GoodPut ==
  ASSUME NEW s, Good(s), NEW r, FilesOK(r), Keeps(s, r), NEW b \in Slots,
         \A c \in Slots \ {b} : r.pl[c] = s.pl[c], SlotOK(s, b, r.pl[b])
  PROVE  Good(r)
<1>1. OnFiles(r) <=> OnFiles(s)
  BY DEF Keeps, OnFiles, Exists, Covered
<1>2. \A c \in Slots : FlaggedOK(r.pl[c])
  BY DEF Good, SlotsOK, SlotOK
<1>3. \A c \in Major : DatedOK(r, r.pl[c]) /\ TheoryOK(r.pl[c])
  BY <1>1 DEF Good, SlotsOK, SlotOK, DatedOK, Keeps, Major, Slots, Bodies
<1>4. SunOK(r)
  BY <1>1 DEF Good, SlotsOK, SlotOK, SunOK, Keeps, Slots, Bodies
<1>5. SavesOK(r)
  BY DEF Good, SavesOK, Keeps
<1> QED
  BY <1>2, <1>3, <1>4, <1>5 DEF Good, SlotsOK

-----------------------------------------------------------------------------
(* sweph().                                                                 *)

\* The earth-moon centre for the sun: the date of the earth's slot is put
\* back.
LEMMA EmbForSun ==
  ASSUME NEW s, FilesOK(s), NEW t \in AllDates, Exists(s, "sepl"), s.lasteph = "SWI",
         NEW r, r = emb_for_sun(s, t)
  PROVE  /\ FileStep(s, r.s, "sepl") /\ r.rc = "OK" /\ FromFiles(r.x, t)
         /\ r = Result(r.s, r.rc, r.x)
<1>0. /\ "earth" \in Slots /\ "earth" \in FileBodies /\ FileOf("earth") = "sepl"
      /\ s \in Swed
  BY DEF Slots, Bodies, FileBodies, FileOf, FilesOK
<1>1. s.pl["earth"].teval \in Day /\ 0 \in Day
  BY <1>0 DEF Swed, PlanType, Day
<1>2. PICK s0 : s0 = SetTeval(s, "earth", 0)
  OBVIOUS
<1>3. /\ FilesOK(s0) /\ Keeps(s, s0) /\ s0.fid = s.fid
      /\ s0.pl["earth"].teval = 0
      /\ SameSlot([s.pl["earth"] EXCEPT !.teval = 0], s0.pl["earth"])
      /\ \A c \in Slots \ {"earth"} : s0.pl[c] = s.pl[c]
  BY <1>0, <1>1, <1>2, PutTeval
<1>4. PICK m : m = from_file(s0, "sepl", t, "earth")
  OBVIOUS
<1>5. Exists(s0, "sepl")
  BY <1>3 DEF Exists, Covered, Keeps
<1>6. /\ FileStep(s0, m.s, "sepl") /\ m.rc = "OK" /\ FromFiles(m.x, t)
      /\ m = Result(m.s, m.rc, m.x)
  <2>1. Ready(s0, "earth")
    BY <1>3 DEF Ready, Keeps
  <2> QED
    BY <1>0, <1>3, <1>4, <1>5, <2>1, FromFile
<1>7. FilesOK(m.s)
  BY <1>6 DEF FileStep
<1>8. PICK z : z = SetTeval(m.s, "earth", s.pl["earth"].teval)
  OBVIOUS
<1>9. /\ FilesOK(z) /\ Keeps(m.s, z) /\ z.fid = m.s.fid
      /\ z.pl["earth"].teval = s.pl["earth"].teval
      /\ SameSlot([m.s.pl["earth"] EXCEPT !.teval = s.pl["earth"].teval], z.pl["earth"])
      /\ \A c \in Slots \ {"earth"} : z.pl[c] = m.s.pl[c]
  BY <1>0, <1>1, <1>7, <1>8, PutTeval
<1>10. ~Saved(s0, t, "earth", [eph |-> "SWI", speed |-> TRUE, raw |-> FALSE])
  BY <1>3, DateFacts DEF Saved
<1>11. r = Result(z, "OK", m.x)
  <2>1. r = [m EXCEPT !.s.pl["earth"].teval = s.pl["earth"].teval]
    BY <1>2, <1>4, <1>6, <1>10 DEF emb_for_sun, Then, SetTeval
  <2>2. r = [m EXCEPT !.s = SetTeval(m.s, "earth", s.pl["earth"].teval)]
    BY <2>1 DEF SetTeval
  <2>3. r = [m EXCEPT !.s = z]
    BY <1>8, <2>2
  <2> QED
    BY <1>6, <2>3 DEF Result
<1>12. r.s = z /\ r.rc = "OK" /\ r.x = m.x
  BY <1>11 DEF Result
<1>13. Keeps(s, z)
  BY <1>3, <1>6, <1>9 DEF Keeps, FileStep
<1>14. SameSlots(s, z, Slots)
  <2>1. SameSlot(s.pl["earth"], z.pl["earth"])
    <3>1. PICK p : p = s.pl["earth"]
      OBVIOUS
    <3>2. PICK p0 : p0 = s0.pl["earth"]
      OBVIOUS
    <3>3. PICK n : n = m.s.pl["earth"]
      OBVIOUS
    <3>4. p \in PlanType /\ p0 \in PlanType /\ n \in PlanType
      BY <1>0, <1>3, <1>7, <3>1, <3>2, <3>3 DEF FilesOK, Swed
    <3>5. SameSlot([p EXCEPT !.teval = 0], p0) /\ SameSlot(p0, n)
      BY <1>0, <1>3, <1>6, <3>1, <3>2, <3>3 DEF FileStep, SameSlots
    <3>6. SameSlot([n EXCEPT !.teval = p.teval], z.pl["earth"])
      BY <1>9, <3>1, <3>3
    <3> QED
      BY <3>1, <3>4, <3>5, <3>6 DEF SameSlot, PlanType
  <2>2. \A b \in Slots \ {"earth"} : SameSlot(s.pl[b], z.pl[b])
    BY <1>3, <1>6, <1>9 DEF SameSlots, FileStep
  <2> QED
    BY <2>1, <2>2 DEF SameSlots
<1>15. \A j \in Kinds \ {"sepl"} : z.fid[j] = s.fid[j]
  BY <1>3, <1>6, <1>9 DEF FileStep
<1> QED
  BY <1>6, <1>9, <1>11, <1>12, <1>13, <1>14, <1>15 DEF FileStep

LEMMA NotFlags == Renew \notin Flags /\ NoFlags \notin Flags
BY DEF Renew, NoFlags, Flags

\* Planet and lunar files are there together.
LEMMA Together ==
  ASSUME NEW s, FilesOK(s), NEW b \in Major
  PROVE  Exists(s, FileOf(b)) <=> Exists(s, "sepl")
BY DEF FilesOK, Swed, Disks, Exists, Covered, FileOf, Major

\* A slot that is saved holds the files' position.
LEMMA SavedFacts ==
  ASSUME NEW s, Good(s), NEW b \in Major, NEW t \in AllDates, NEW f, Saved(s, t, b, f)
  PROVE  FromFiles(s.pl[b].x, t) /\ Exists(s, "sepl")
<1>1. PICK p \in PlanType : p = s.pl[b]
  BY DEF Good, FilesOK, Swed, Major, Slots, Bodies
<1>2. p.teval = t /\ t # 0 /\ p.iephe = "SWI"
  BY <1>1, DateFacts DEF Saved
<1>3. DatedOK(s, p)
  BY <1>1 DEF Good, SlotsOK
<1>4. \A e \in p.x : e.t = t /\ e.src = "SWI"
  BY <1>2, <1>3 DEF DatedOK, NotByTheory
<1> QED
  BY <1>1, <1>2, <1>3, <1>4 DEF DatedOK, OnFiles, FromFiles, OfDate, PlanType

\* What a call inside swe_calc() does to the structure
Did(s, r) == Good(r) /\ Keeps(s, r) /\ r.fid["seas"] = s.fid["seas"]

LEMMA FileDid ==
  ASSUME NEW s, Good(s), NEW k, k # "seas", NEW r, FileStep(s, r, k)
  PROVE  Did(s, r)
BY GoodFrame DEF FileStep, Did, Kinds

LEMMA DidTrans ==
  ASSUME NEW s, NEW r, NEW q, Did(s, r), Did(r, q)
  PROVE  Did(s, q)
BY DEF Did, Keeps

LEMMA DidSame == ASSUME NEW s, Good(s) PROVE Did(s, s)
BY DEF Did, Keeps

LEMMA SameRefl == \A s, B : SameSlots(s, s, B)
BY DEF SameSlots, SameSlot

LEMMA SameTrans ==
  ASSUME NEW s, NEW r, NEW q, NEW B, SameSlots(s, r, B), SameSlots(r, q, B)
  PROVE  SameSlots(s, q, B)
BY DEF SameSlots, SameSlot

\* A position from the files goes to its slot.
LEMMA StoreFiles ==
  ASSUME NEW s, Good(s), NEW b \in Major, NEW t \in Dates, NEW x, FromFiles(x, t),
         Exists(s, "sepl"), s.lasteph = "SWI", NEW r, r = Store(s, b, t, x, "SWI")
  PROVE  /\ Did(s, r) /\ SameSlots(s, r, Slots \ {b})
         /\ r.pl[b].teval = t /\ r.pl[b].iephe = "SWI" /\ r.pl[b].x = x
         /\ r.pl[b].xflgs = Renew
<1>1. b \in Slots /\ t \in Day /\ x \in SUBSET Evals /\ FilesOK(s)
  BY DEF Major, Slots, Bodies, Day, FromFiles, OfDate, Good
<1>2. /\ FilesOK(r) /\ Keeps(s, r) /\ r.fid = s.fid
      /\ r.pl[b].teval = t /\ r.pl[b].x = x /\ r.pl[b].iephe = "SWI"
      /\ r.pl[b].xflgs = Renew
      /\ \A c \in Slots \ {b} : r.pl[c] = s.pl[c]
  BY <1>1, PutStore
<1>3. SlotOK(s, b, r.pl[b])
  BY <1>2, NotFlags DEF SlotOK, FlaggedOK, DatedOK, OnFiles, TheoryOK, FromFiles, OfDate
<1>4. Good(r)
  BY <1>1, <1>2, <1>3, GoodPut
<1> QED
  BY <1>2, <1>4 DEF Did, SameSlots, SameSlot

\* What sweph() and its callers return: a position where there are files,
\* and slots that keep what they had, B apart.
Looked(s, r, t, B) ==
  /\ Did(s, r.s) /\ r.rc \in {"OK", "NA"}
  /\ r.rc = "OK" <=> Exists(s, "sepl")
  /\ r.rc = "OK" => FromFiles(r.x, t)
  /\ r.rc = "NA" => r.x = {}
  /\ SameSlots(s, r.s, IF r.rc = "OK" THEN Slots \ B ELSE Slots)

\* The slot b has the position x of the date, by the files.
HasFiles(s, b, t, x) ==
  s.pl[b].teval = t /\ s.pl[b].iephe = "SWI" /\ s.pl[b].x = x

LEMMA WithSun ==
  ASSUME NEW s, Good(s), NEW b \in Major, NEW t \in AllDates, NEW f, s.lasteph = "SWI",
         NEW r, r = with_sun(from_file(s, FileOf(b), t, b), t, b, {}, f)
  PROVE  Looked(s, r, t, {}) /\ r = Result(r.s, r.rc, r.x)
<1>0. FilesOK(s) /\ b \in FileBodies /\ b # "chiron" /\ FileOf(b) # "seas"
  BY DEF Good, Major, FileBodies, Bodies, FileOf
<1>1. PICK k : k = FileOf(b)
  OBVIOUS
<1>2. PICK g : g = from_file(s, k, t, b)
  OBVIOUS
<1>3. /\ FileStep(s, g.s, k) /\ g.rc \in {"OK", "NA"} /\ g = Result(g.s, g.rc, g.x)
      /\ g.rc = "OK" => Exists(s, k) /\ FromFiles(g.x, t)
      /\ g.rc = "NA" => g.x = {}
      /\ Exists(s, k) => g.rc = "OK"
  BY <1>0, <1>1, <1>2, FromFile DEF Ready
<1>4. Exists(s, k) <=> Exists(s, "sepl")
  BY <1>0, <1>1, Together
<1>5. Looked(s, g, t, {})
  <2>1. Did(s, g.s)
    BY <1>0, <1>1, <1>3, FileDid
  <2>2. SameSlots(s, g.s, Slots)
    BY <1>3 DEF FileStep
  <2> QED
    BY <1>3, <1>4, <2>1, <2>2 DEF Looked
<1>6. CASE b = "sunbary" /\ g.rc = "OK"
  <2>1. FilesOK(g.s) /\ Exists(g.s, "sepl") /\ g.s.lasteph = "SWI"
    BY <1>3, <1>4, <1>6 DEF FileStep, Keeps, Exists, Covered
  <2>2. PICK m : m = emb_for_sun(g.s, t)
    OBVIOUS
  <2>3. /\ FileStep(g.s, m.s, "sepl") /\ m.rc = "OK" /\ FromFiles(m.x, t)
        /\ m = Result(m.s, m.rc, m.x)
    BY <2>1, <2>2, EmbForSun
  <2>4. r = Result(m.s, "OK", m.x \cup g.x)
    <3>1. r = [m EXCEPT !.x = m.x \cup g.x]
      BY <1>1, <1>2, <1>6, <2>2, <2>3 DEF with_sun, Then
    <3> QED
      BY <2>3, <3>1 DEF Result
  <2>5. r.s = m.s /\ r.rc = "OK" /\ r.x = m.x \cup g.x
    BY <2>4 DEF Result
  <2>6. FromFiles(r.x, t)
    BY <1>3, <1>6, <2>3, <2>5 DEF FromFiles, OfDate
  <2>7. Did(s, r.s)
    <3>1. Did(g.s, m.s)
      BY <1>5, <2>3, FileDid DEF Looked, Did
    <3> QED
      BY <1>5, <2>5, <3>1, DidTrans DEF Looked
  <2>8. SameSlots(s, r.s, Slots)
    <3>1. SameSlots(s, g.s, Slots) /\ SameSlots(g.s, m.s, Slots)
      BY <1>3, <2>3 DEF FileStep
    <3> QED
      BY <2>5, <3>1, SameTrans
  <2> QED
    BY <1>3, <1>4, <1>6, <2>4, <2>5, <2>6, <2>7, <2>8 DEF Looked, Result
<1>7. CASE ~(b = "sunbary" /\ g.rc = "OK")
  <2>1. r = g
    BY <1>0, <1>1, <1>2, <1>7 DEF with_sun
  <2> QED
    BY <1>3, <1>5, <2>1
<1> QED
  BY <1>6, <1>7

\* Files are read by their theory, and positions saved at the dates asked for.
MaySave(s, t, do_save) == s.lasteph = "SWI" /\ (do_save => t \in Dates)

\* sweph() for a body that has a theory
Major_sweph(s, t, b, f, do_save) == sweph(s, t, b, f, {}, do_save)

LEMMA Sweph ==
  ASSUME NEW s, Good(s), NEW b \in Major, NEW t \in AllDates, NEW f,
         NEW do_save \in BOOLEAN, MaySave(s, t, do_save),
         NEW r, r = Major_sweph(s, t, b, f, do_save)
  PROVE  /\ Looked(s, r, t, IF do_save THEN {b} ELSE {}) /\ r = Result(r.s, r.rc, r.x)
         /\ do_save /\ r.rc = "OK" => HasFiles(r.s, b, t, r.x)
<1>0. b # "chiron" /\ FileOf(b) # "seas"
  BY DEF Major, FileOf
<1>1. CASE Saved(s, t, b, f)
  <2>1. r = Result(s, "OK", s.pl[b].x)
    BY <1>0, <1>1 DEF Major_sweph, sweph
  <2>2. r.s = s /\ r.rc = "OK" /\ r.x = s.pl[b].x
    BY <2>1 DEF Result
  <2>3. FromFiles(s.pl[b].x, t) /\ Exists(s, "sepl")
    BY <1>1, SavedFacts
  <2> QED
    BY <1>1, <2>1, <2>2, <2>3, DidSame, SameRefl DEF Looked, HasFiles, Saved, Result
<1>2. CASE ~Saved(s, t, b, f)
  <2>1. PICK e : e = with_sun(from_file(s, FileOf(b), t, b), t, b, {}, f)
    OBVIOUS
  <2>2. Looked(s, e, t, {}) /\ e = Result(e.s, e.rc, e.x)
    BY <2>1, WithSun DEF MaySave
  <2>3. CASE e.rc = "OK" /\ do_save
    <3>1. PICK z : z = Store(e.s, b, t, e.x, "SWI")
      OBVIOUS
    <3>2. r = Result(z, "OK", e.x)
      <4>1. r = [e EXCEPT !.s = z]
        BY <1>0, <1>2, <2>1, <2>3, <3>1 DEF Major_sweph, sweph, Then
      <4> QED
        BY <2>2, <2>3, <4>1 DEF Looked, Result
    <3>3. r.s = z /\ r.rc = "OK" /\ r.x = e.x
      BY <3>2 DEF Result
    <3>4. Good(e.s) /\ e.s.lasteph = "SWI" /\ Exists(e.s, "sepl") /\ FromFiles(e.x, t)
      BY <2>2, <2>3 DEF Looked, Did, Keeps, Exists, Covered, MaySave
    <3>5. /\ Did(e.s, z) /\ SameSlots(e.s, z, Slots \ {b})
          /\ z.pl[b].teval = t /\ z.pl[b].iephe = "SWI" /\ z.pl[b].x = e.x
      BY <2>3, <3>1, <3>4, StoreFiles DEF MaySave
    <3>6. Did(s, z)
      BY <2>2, <3>5, DidTrans DEF Looked
    <3>7. SameSlots(s, z, Slots \ {b})
      <4>1. SameSlots(s, e.s, Slots)
        BY <2>2 DEF Looked
      <4> QED
        BY <3>5, <4>1 DEF SameSlots, SameSlot
    <3>8. Exists(s, "sepl")
      BY <2>2, <2>3 DEF Looked
    <3> QED
      BY <2>3, <3>2, <3>3, <3>4, <3>5, <3>6, <3>7, <3>8 DEF Looked, HasFiles, Result
  <2>4. CASE ~(e.rc = "OK" /\ do_save)
    <3>1. r = e
      BY <1>0, <1>2, <2>1, <2>4 DEF Major_sweph, sweph, Then
    <3> QED
      BY <2>2, <2>4, <3>1 DEF Looked
  <2> QED
    BY <2>3, <2>4
<1> QED
  BY <1>1, <1>2

-----------------------------------------------------------------------------
(* sweplan().                                                               *)

\* One look follows another that found its body.
LEMMA LookedTrans ==
  ASSUME NEW s, NEW r, NEW t, NEW A, Looked(s, r, t, A), r.rc = "OK",
         NEW q, NEW B, Looked(r.s, q, t, B)
  PROVE  Looked(s, q, t, A \cup B) /\ q.rc = "OK"
<1>1. Exists(s, "sepl") /\ (Exists(r.s, "sepl") <=> Exists(s, "sepl"))
  BY DEF Looked, Did, Keeps, Exists, Covered
<1>2. q.rc = "OK"
  BY <1>1 DEF Looked
<1>3. Did(s, q.s)
  BY DidTrans DEF Looked
<1>4. SameSlots(s, r.s, Slots \ A) /\ SameSlots(r.s, q.s, Slots \ B)
  BY <1>2 DEF Looked
<1>5. SameSlots(s, q.s, Slots \ (A \cup B))
  BY <1>4 DEF SameSlots, SameSlot
<1> QED
  BY <1>1, <1>2, <1>3, <1>5 DEF Looked

LEMMA LookedMore ==
  ASSUME NEW s, NEW r, NEW t, NEW A, NEW B, A \subseteq B, Looked(s, r, t, A)
  PROVE  Looked(s, r, t, B)
BY DEF Looked, SameSlots

LEMMA SavedOr ==
  ASSUME NEW s, Good(s), NEW b \in Major, NEW t \in AllDates, NEW f,
         NEW do_save \in BOOLEAN, MaySave(s, t, do_save),
         NEW r, r = saved_or(s, t, b, f, do_save)
  PROVE  /\ Looked(s, r, t, IF do_save THEN {b} ELSE {}) /\ r = Result(r.s, r.rc, r.x)
         /\ do_save /\ r.rc = "OK" => HasFiles(r.s, b, t, r.x)
<1>1. CASE Saved(s, t, b, f)
  <2>1. r = Result(s, "OK", s.pl[b].x)
    BY <1>1 DEF saved_or
  <2>2. r.s = s /\ r.rc = "OK" /\ r.x = s.pl[b].x
    BY <2>1 DEF Result
  <2>3. FromFiles(s.pl[b].x, t) /\ Exists(s, "sepl")
    BY <1>1, SavedFacts
  <2> QED
    BY <1>1, <2>1, <2>2, <2>3, DidSame, SameRefl DEF Looked, HasFiles, Saved, Result
<1>2. CASE ~Saved(s, t, b, f)
  <2>1. r = Major_sweph(s, t, b, f, do_save)
    BY <1>2 DEF saved_or, Major_sweph
  <2> QED
    BY <2>1, Sweph
<1> QED
  BY <1>1, <1>2

\* A set is added to the position of the date, in the slot if it was saved.
LEMMA Added ==
  ASSUME NEW s, Good(s), NEW b \in Major \ {"sunbary"}, NEW t \in Dates, NEW x, FromFiles(x, t),
         s.pl[b].teval = t, s.pl[b].iephe = "SWI", NEW r, r = SetX(s, b, x)
  PROVE  Did(s, r) /\ SameSlots(s, r, Slots \ {b}) /\ HasFiles(r, b, t, x)
<1>1. b \in Slots /\ x \in SUBSET Evals /\ FilesOK(s)
  BY DEF Major, Slots, Bodies, FromFiles, OfDate, Good
<1>2. /\ FilesOK(r) /\ Keeps(s, r) /\ r.fid = s.fid
      /\ r.pl[b] = [s.pl[b] EXCEPT !.x = x] /\ r.pl[b] \in PlanType
      /\ \A c \in Slots \ {b} : r.pl[c] = s.pl[c]
  BY <1>1, PutX
<1>3. PICK p \in PlanType : p = s.pl[b]
  BY <1>1 DEF FilesOK, Swed
<1>4. PICK n : n = r.pl[b]
  OBVIOUS
<1>5. n = [p EXCEPT !.x = x]
  BY <1>2, <1>3, <1>4
<1>6. /\ n.teval = t /\ n.iephe = "SWI" /\ n.x = x /\ n.xflgs = p.xflgs /\ n.xret = p.xret
  BY <1>3, <1>5 DEF PlanType
<1>7. FlaggedOK(p) /\ DatedOK(s, p) /\ TheoryOK(p)
  BY <1>1, <1>3 DEF Good, SlotsOK
<1>8. p.teval = t /\ p.iephe = "SWI" /\ t # 0
  BY <1>3, DateFacts
<1>9. SlotOK(s, b, n)
  <2>1. FlaggedOK(n)
    BY <1>6, <1>7 DEF FlaggedOK
  <2>2. TheoryOK(n)
    BY <1>6, <1>7, <1>8 DEF TheoryOK
  <2>3. DatedOK(s, n)
    BY <1>6, <1>7, <1>8 DEF DatedOK, FromFiles, OfDate
  <2> QED
    BY <2>1, <2>2, <2>3 DEF SlotOK
<1>10. Good(r)
  BY <1>1, <1>2, <1>4, <1>9, GoodPut
<1> QED
  BY <1>2, <1>4, <1>6, <1>10 DEF Did, HasFiles, SameSlots, SameSlot

\* The moon, the earth and the planet: as sweph() gives them, the moon or
\* the sun added.
LEMMA MoonOf ==
  ASSUME NEW s, Good(s), NEW t \in AllDates, NEW f, Exists(s, "sepl"),
         NEW do_save \in BOOLEAN, MaySave(s, t, do_save),
         NEW r, r = moon_of(s, t, f, do_save)
  PROVE  /\ Looked(s, r, t, IF do_save THEN {"moon"} ELSE {}) /\ r = Result(r.s, r.rc, r.x)
         /\ do_save /\ r.rc = "OK" => HasFiles(r.s, "moon", t, r.x)
<1>1. PICK m : m = saved_or(s, t, "moon", f, do_save)
  OBVIOUS
<1>2. /\ Looked(s, m, t, IF do_save THEN {"moon"} ELSE {}) /\ m = Result(m.s, m.rc, m.x)
      /\ do_save /\ m.rc = "OK" => HasFiles(m.s, "moon", t, m.x)
  BY <1>1, SavedOr DEF Major
<1>3. m.rc = "OK"
  BY <1>2 DEF Looked
<1>4. r = m
  BY <1>1, <1>3 DEF moon_of, Then
<1> QED
  BY <1>2, <1>4

PlusOf(s, t, b, f, do_save, y) ==
  IF Saved(s, t, b, f) THEN Result(s, "OK", s.pl[b].x)
  ELSE Then(sweph(s, t, b, f, {}, do_save), LAMBDA r :
       IF r.rc # "OK" THEN r
       ELSE Result(IF do_save THEN [r.s EXCEPT !.pl[b].x = r.x \cup y] ELSE r.s,
                   "OK", r.x \cup y))

LEMMA Plus ==
  ASSUME NEW s, Good(s), NEW b \in Major \ {"sunbary"}, NEW t \in AllDates, NEW f, NEW y,
         FromFiles(y, t),
         NEW do_save \in BOOLEAN, MaySave(s, t, do_save),
         NEW r, r = PlusOf(s, t, b, f, do_save, y)
  PROVE  /\ Looked(s, r, t, IF do_save THEN {b} ELSE {}) /\ r = Result(r.s, r.rc, r.x)
         /\ do_save /\ r.rc = "OK" => HasFiles(r.s, b, t, r.x)
<1>0. b \in Major /\ b \in Major \ {"sunbary"}
  BY DEF Major
<1>1. CASE Saved(s, t, b, f)
  <2>1. r = Result(s, "OK", s.pl[b].x)
    BY <1>1 DEF PlusOf
  <2>2. r.s = s /\ r.rc = "OK" /\ r.x = s.pl[b].x
    BY <2>1 DEF Result
  <2>3. FromFiles(s.pl[b].x, t) /\ Exists(s, "sepl")
    BY <1>0, <1>1, SavedFacts
  <2> QED
    BY <1>1, <2>1, <2>2, <2>3, DidSame, SameRefl DEF Looked, HasFiles, Saved, Result
<1>2. CASE ~Saved(s, t, b, f)
  <2>1. PICK e : e = Major_sweph(s, t, b, f, do_save)
    OBVIOUS
  <2>2. /\ Looked(s, e, t, IF do_save THEN {b} ELSE {}) /\ e = Result(e.s, e.rc, e.x)
        /\ do_save /\ e.rc = "OK" => HasFiles(e.s, b, t, e.x)
    BY <1>0, <2>1, Sweph
  <2>3. CASE e.rc # "OK"
    <3>1. r = e
      BY <1>2, <2>1, <2>3 DEF PlusOf, Major_sweph, Then
    <3> QED
      BY <2>2, <3>1
  <2>4. CASE e.rc = "OK" /\ ~do_save
    <3>1. r = Result(e.s, "OK", e.x \cup y)
      BY <1>2, <2>1, <2>4 DEF PlusOf, Major_sweph, Then
    <3>2. r.s = e.s /\ r.rc = "OK" /\ r.x = e.x \cup y
      BY <3>1 DEF Result
    <3>3. FromFiles(r.x, t)
      BY <2>2, <2>4, <3>2 DEF Looked, FromFiles, OfDate
    <3> QED
      BY <2>2, <2>4, <3>1, <3>2, <3>3 DEF Looked
  <2>5. CASE e.rc = "OK" /\ do_save
    <3>1. PICK z : z = SetX(e.s, b, e.x \cup y)
      OBVIOUS
    <3>2. r = Result(z, "OK", e.x \cup y)
      BY <1>2, <2>1, <2>5, <3>1 DEF PlusOf, Major_sweph, Then, SetX
    <3>3. r.s = z /\ r.rc = "OK" /\ r.x = e.x \cup y
      BY <3>2 DEF Result
    <3>4. FromFiles(r.x, t)
      BY <2>2, <2>5, <3>3 DEF Looked, FromFiles, OfDate
    <3>5. Good(e.s) /\ e.s.pl[b].teval = t /\ e.s.pl[b].iephe = "SWI" /\ t \in Dates
      BY <2>2, <2>5 DEF Looked, Did, HasFiles, MaySave
    <3>6. Did(e.s, z) /\ SameSlots(e.s, z, Slots \ {b}) /\ HasFiles(z, b, t, r.x)
      BY <1>0, <3>1, <3>3, <3>4, <3>5, Added
    <3>7. Did(s, z)
      BY <2>2, <3>6, DidTrans DEF Looked
    <3>8. SameSlots(s, z, Slots \ {b})
      <4>1. SameSlots(s, e.s, Slots \ {b})
        BY <2>2, <2>5 DEF Looked
      <4> QED
        BY <3>6, <4>1, SameTrans
    <3> QED
      BY <2>2, <2>5, <3>2, <3>3, <3>4, <3>6, <3>7, <3>8 DEF Looked
  <2> QED
    BY <2>3, <2>4, <2>5
<1> QED
  BY <1>1, <1>2

LEMMA EarthOf ==
  ASSUME NEW s, Good(s), NEW t \in AllDates, NEW f, NEW y, FromFiles(y, t),
         NEW do_save \in BOOLEAN, MaySave(s, t, do_save),
         NEW r, r = earth_of(s, t, f, do_save, y)
  PROVE  /\ Looked(s, r, t, IF do_save THEN {"earth"} ELSE {}) /\ r = Result(r.s, r.rc, r.x)
         /\ do_save /\ r.rc = "OK" => HasFiles(r.s, "earth", t, r.x)
<1>1. "earth" \in Major \ {"sunbary"}
  BY DEF Major
<1>2. r = PlusOf(s, t, "earth", f, do_save, y)
  BY DEF PlusOf, earth_of
<1> QED
  BY <1>1, <1>2, Plus

LEMMA PlanetOf ==
  ASSUME NEW s, Good(s), NEW b \in Major \ {"sunbary"}, NEW t \in AllDates, NEW f, NEW y,
         FromFiles(y, t),
         NEW do_save \in BOOLEAN, MaySave(s, t, do_save),
         NEW r, r = planet_of(s, t, b, f, do_save, y)
  PROVE  /\ Looked(s, r, t, IF do_save THEN {b} ELSE {}) /\ r = Result(r.s, r.rc, r.x)
         /\ do_save /\ r.rc = "OK" => HasFiles(r.s, b, t, r.x)
<1>1. r = PlusOf(s, t, b, f, do_save, y)
  BY DEF PlusOf, planet_of
<1> QED
  BY <1>1, Plus

\* A slot that has its position keeps it when others are computed.
LEMMA HasKept ==
  ASSUME NEW s, NEW b, NEW t, NEW x, HasFiles(s, b, t, x), NEW r, NEW B,
         SameSlots(s, r, Slots \ B), b \in Slots \ B
  PROVE  HasFiles(r, b, t, x)
BY DEF HasFiles, SameSlots, SameSlot

\* Where there are files the planet, the earth and the sun come from them
\* and, saved, are in their slots; where there are none nothing is changed.
HasDay(s, b, t) == s.pl[b].teval = t /\ s.pl[b].iephe = "SWI"

LEMMA Sweplan ==
  ASSUME NEW s, Good(s), NEW b \in Major \ {"sunbary"}, NEW t \in AllDates, NEW f,
         NEW do_save \in BOOLEAN, MaySave(s, t, do_save),
         NEW r, r = sweplan(s, t, b, f, do_save)
  PROVE  /\ Looked(s, r, t, IF do_save THEN Major ELSE {})
         /\ r = Parts(Result(r.s, r.rc, r.x), r.e, r.sun)
         /\ r.rc = "OK" => FromFiles(r.e, t) /\ FromFiles(r.sun, t)
         /\ do_save /\ r.rc = "OK" => HasDay(r.s, "earth", t) /\ HasDay(r.s, b, t)
<1>0. /\ "sunbary" \in Major /\ "earth" \in Major \ {"sunbary"} /\ Major \subseteq Slots
      /\ "moon" \in Major /\ "earth" \in Slots /\ b \in Slots
  BY DEF Major, Slots, Bodies
<1>1. PICK sun : sun = saved_or(s, t, "sunbary", f, do_save)
  OBVIOUS
<1>2. /\ Looked(s, sun, t, IF do_save THEN {"sunbary"} ELSE {})
      /\ sun = Result(sun.s, sun.rc, sun.x)
  BY <1>1, SavedOr DEF Major
<1>3. CASE sun.rc # "OK"
  <2>1. r = Parts(sun, {}, {})
    BY <1>1, <1>3 DEF sweplan, Then
  <2>2. r.s = sun.s /\ r.rc = sun.rc /\ r.x = sun.x /\ r.e = {} /\ r.sun = {}
    BY <2>1 DEF Parts
  <2>3. r = Parts(Result(r.s, r.rc, r.x), r.e, r.sun)
    BY <2>1, <2>2 DEF Parts, Result
  <2>4. Looked(s, r, t, IF do_save THEN Major ELSE {})
    BY <1>2, <1>3, <2>2 DEF Looked
  <2> QED
    BY <1>3, <2>2, <2>3, <2>4
<1>4. CASE sun.rc = "OK"
  <2>1. Good(sun.s) /\ Exists(sun.s, "sepl") /\ MaySave(sun.s, t, do_save)
    BY <1>2, <1>4 DEF Looked, Did, Keeps, Exists, Covered, MaySave
  <2>2. PICK mn : mn = moon_of(sun.s, t, f, do_save)
    OBVIOUS
  <2>3. /\ Looked(sun.s, mn, t, IF do_save THEN {"moon"} ELSE {})
        /\ mn = Result(mn.s, mn.rc, mn.x)
        /\ do_save /\ mn.rc = "OK" => HasFiles(mn.s, "moon", t, mn.x)
    BY <2>1, <2>2, MoonOf
  <2>4. /\ Looked(s, mn, t, (IF do_save THEN {"sunbary"} ELSE {})
                                \cup (IF do_save THEN {"moon"} ELSE {}))
        /\ mn.rc = "OK"
    BY <1>2, <1>4, <2>3, LookedTrans
  <2>5. Good(mn.s) /\ MaySave(mn.s, t, do_save)
    BY <2>4 DEF Looked, Did, Keeps, MaySave
  <2>6. FromFiles(mn.x, t) /\ FromFiles(sun.x, t)
    BY <1>2, <1>4, <2>4 DEF Looked
  <2>7. PICK earth : earth = earth_of(mn.s, t, f, do_save, mn.x)
    OBVIOUS
  <2>8. /\ Looked(mn.s, earth, t, IF do_save THEN {"earth"} ELSE {})
        /\ earth = Result(earth.s, earth.rc, earth.x)
        /\ do_save /\ earth.rc = "OK" => HasFiles(earth.s, "earth", t, earth.x)
    BY <2>5, <2>6, <2>7, EarthOf
  <2>9. /\ Looked(s, earth, t, ((IF do_save THEN {"sunbary"} ELSE {})
                                  \cup (IF do_save THEN {"moon"} ELSE {}))
                                 \cup (IF do_save THEN {"earth"} ELSE {}))
        /\ earth.rc = "OK"
    BY <2>4, <2>8, LookedTrans
  <2>10. FromFiles(earth.x, t)
    BY <2>9 DEF Looked
  <2>11. Looked(s, earth, t, IF do_save THEN Major ELSE {})
    BY <2>9, LookedMore DEF Major
  <2>12. do_save => HasFiles(earth.s, "moon", t, mn.x)
    <3>1. ASSUME do_save PROVE HasFiles(earth.s, "moon", t, mn.x)
      <4>1. SameSlots(mn.s, earth.s, Slots \ {"earth"})
        BY <2>8, <2>9, <3>1 DEF Looked
      <4>2. HasFiles(mn.s, "moon", t, mn.x) /\ "moon" \in Slots \ {"earth"}
        BY <2>3, <2>4, <3>1 DEF Slots, Bodies
      <4> QED
        BY <4>1, <4>2, HasKept
    <3> QED
      BY <3>1
  <2>13. CASE b = "moon"
    <3>1. r = Parts([earth EXCEPT !.x = mn.x], earth.x, sun.x)
      BY <1>1, <1>4, <2>2, <2>4, <2>7, <2>9, <2>13 DEF sweplan, Then
    <3>2. [earth EXCEPT !.x = mn.x] = Result(earth.s, "OK", mn.x)
      BY <2>8, <2>9 DEF Result
    <3>3. /\ r.s = earth.s /\ r.rc = "OK" /\ r.x = mn.x /\ r.e = earth.x /\ r.sun = sun.x
          /\ r = Parts(Result(r.s, r.rc, r.x), r.e, r.sun)
      BY <3>1, <3>2 DEF Parts, Result
    <3>4. Looked(s, r, t, IF do_save THEN Major ELSE {})
      BY <2>6, <2>9, <2>11, <3>3 DEF Looked
    <3> QED
      BY <2>6, <2>8, <2>9, <2>10, <2>12, <2>13, <3>3, <3>4 DEF HasFiles, HasDay
  <2>14. CASE b = "earth"
    <3>1. r = Parts(earth, earth.x, sun.x)
      BY <1>1, <1>4, <2>2, <2>4, <2>7, <2>9, <2>14 DEF sweplan, Then
    <3>2. /\ r.s = earth.s /\ r.rc = "OK" /\ r.x = earth.x /\ r.e = earth.x /\ r.sun = sun.x
          /\ r = Parts(Result(r.s, r.rc, r.x), r.e, r.sun)
      BY <2>9, <3>1 DEF Parts, Result
    <3>3. Looked(s, r, t, IF do_save THEN Major ELSE {})
      BY <2>9, <2>11, <3>2 DEF Looked
    <3> QED
      BY <2>6, <2>8, <2>9, <2>10, <2>14, <3>2, <3>3 DEF HasFiles, HasDay
  <2>15. CASE b \notin {"moon", "earth"}
    <3>1. PICK p : p = planet_of(earth.s, t, b, f, do_save, sun.x)
      OBVIOUS
    <3>2. Good(earth.s) /\ MaySave(earth.s, t, do_save)
      BY <2>9 DEF Looked, Did, Keeps, MaySave
    <3>3. /\ Looked(earth.s, p, t, IF do_save THEN {b} ELSE {})
          /\ p = Result(p.s, p.rc, p.x)
          /\ do_save /\ p.rc = "OK" => HasFiles(p.s, b, t, p.x)
      BY <2>6, <3>1, <3>2, PlanetOf
    <3>4. /\ Looked(s, p, t, (IF do_save THEN Major ELSE {}) \cup (IF do_save THEN {b} ELSE {}))
          /\ p.rc = "OK"
      BY <2>9, <2>11, <3>3, LookedTrans
    <3>5. r = Parts(p, earth.x, sun.x)
      BY <1>1, <1>4, <2>2, <2>4, <2>7, <2>9, <2>15, <3>1 DEF sweplan, Then
    <3>6. /\ r.s = p.s /\ r.rc = "OK" /\ r.x = p.x /\ r.e = earth.x /\ r.sun = sun.x
          /\ r = Parts(Result(r.s, r.rc, r.x), r.e, r.sun)
      BY <3>4, <3>5 DEF Parts, Result
    <3>7. Looked(s, p, t, IF do_save THEN Major ELSE {})
      BY <3>4, LookedMore
    <3>8. Looked(s, r, t, IF do_save THEN Major ELSE {})
      BY <3>4, <3>6, <3>7 DEF Looked
    <3>9. do_save => HasFiles(p.s, "earth", t, earth.x)
      <4>1. ASSUME do_save PROVE HasFiles(p.s, "earth", t, earth.x)
        <5>1. SameSlots(earth.s, p.s, Slots \ {b})
          BY <3>3, <3>4, <4>1 DEF Looked
        <5>2. HasFiles(earth.s, "earth", t, earth.x) /\ "earth" \in Slots \ {b}
          BY <1>0, <2>8, <2>9, <2>15, <4>1
        <5> QED
          BY <5>1, <5>2, HasKept
      <4> QED
        BY <4>1
    <3> QED
      BY <2>6, <2>10, <3>3, <3>4, <3>6, <3>8, <3>9 DEF HasFiles, HasDay
  <2> QED
    BY <2>13, <2>14, <2>15
<1> QED
  BY <1>3, <1>4

\* The two ways it is called
Looks(s, t, b, f) == sweplan(s, t, b, f, FALSE)
Saves(s, t, b, f) == sweplan(s, t, b, f, TRUE)

LEMMA SweplanLooks ==
  ASSUME NEW s, Good(s), NEW b \in Major \ {"sunbary"}, NEW t \in AllDates, NEW f,
         s.lasteph = "SWI", NEW r, r = Looks(s, t, b, f)
  PROVE  /\ Looked(s, r, t, {}) /\ SameSlots(s, r.s, Slots)
         /\ r.rc = "OK" => FromFiles(r.e, t) /\ FromFiles(r.sun, t)
<1>1. PICK d \in BOOLEAN : d = FALSE
  OBVIOUS
<1>2. r = sweplan(s, t, b, f, d) /\ MaySave(s, t, d)
  BY <1>1 DEF Looks, MaySave
<1>3. /\ Looked(s, r, t, IF d THEN Major ELSE {})
      /\ r.rc = "OK" => FromFiles(r.e, t) /\ FromFiles(r.sun, t)
  BY <1>2, Sweplan
<1> QED
  BY <1>1, <1>3 DEF Looked

LEMMA SweplanSaves ==
  ASSUME NEW s, Good(s), NEW b \in Major \ {"sunbary"}, NEW t \in Dates, NEW f,
         s.lasteph = "SWI", NEW r, r = Saves(s, t, b, f)
  PROVE  /\ Looked(s, r, t, Major)
         /\ r = Parts(Result(r.s, r.rc, r.x), r.e, r.sun)
         /\ r.rc = "OK" => /\ FromFiles(r.e, t) /\ FromFiles(r.sun, t)
                           /\ HasDay(r.s, "earth", t) /\ HasDay(r.s, b, t)
<1>1. PICK d \in BOOLEAN : d = TRUE
  OBVIOUS
<1>2. /\ r = sweplan(s, t, b, f, d) /\ t \in AllDates
      /\ MaySave(s, t, d)
  BY <1>1, DateFacts DEF Saves, MaySave
<1>3. /\ Looked(s, r, t, IF d THEN Major ELSE {})
      /\ r = Parts(Result(r.s, r.rc, r.x), r.e, r.sun)
      /\ r.rc = "OK" => FromFiles(r.e, t) /\ FromFiles(r.sun, t)
      /\ d /\ r.rc = "OK" => HasDay(r.s, "earth", t) /\ HasDay(r.s, b, t)
  BY <1>2, Sweplan
<1> QED
  BY <1>1, <1>3

-----------------------------------------------------------------------------
(* Moshier's theory.                                                        *)

ByMosh(x) == x \subseteq Evals /\ \A e \in x : e.src \in {"MOS", "none"}
HasMosh(s, b, t) == s.pl[b].teval = t /\ s.pl[b].iephe = "MOS"

\* No file is touched, and the slots keep what they had, B apart.
Moshed(s, r, B) ==
  /\ Did(s, r.s) /\ r.s.fid = s.fid /\ r.rc = "OK" /\ ByMosh(r.x)
  /\ SameSlots(s, r.s, Slots \ B)

LEMMA OneByMosh ==
  ASSUME NEW b \in Major, NEW t \in AllDates
  PROVE  ByMosh({Mosh(b, t)}) /\ \A e \in {Mosh(b, t)} : e.t = t
<1>1. NoSeg \in SegType
  BY DEF NoSeg, SegType
<1> QED
  BY <1>1 DEF ByMosh, Mosh, Eval, Evals, Names, Sources, Bodies, Major

LEMMA Embofs ==
  ASSUME NEW s, s.oec \in Dates, NEW t \in AllDates
  PROVE  ByMosh(embofs_mosh(s, t)) /\ \A e \in embofs_mosh(s, t) : e.t \in {t, s.oec}
<1>1. NoSeg \in SegType
  BY DEF NoSeg, SegType
<1>2. s.oec \in AllDates
  BY DateFacts
<1>3. /\ Mosh("earth", t) \in Evals /\ Mosh("earth", t).src = "MOS" /\ Mosh("earth", t).t = t
  BY <1>1 DEF Mosh, Eval, Evals, Names, Sources, Bodies
<1>4. /\ Eval("oec", "none", s.oec, NoSeg) \in Evals
      /\ Eval("oec", "none", s.oec, NoSeg).src = "none"
      /\ Eval("oec", "none", s.oec, NoSeg).t = s.oec
  BY <1>1, <1>2 DEF Eval, Evals, Names, Sources
<1> QED
  BY <1>3, <1>4 DEF ByMosh, embofs_mosh

\* A slot that has the theory's position
LEMMA MoshFacts ==
  ASSUME NEW s, Good(s), NEW b \in Major, NEW t \in AllDates, HasMosh(s, b, t)
  PROVE  ByMosh(s.pl[b].x)
<1>1. PICK p \in PlanType : p = s.pl[b]
  BY DEF Good, FilesOK, Swed, Major, Slots, Bodies
<1>2. p.teval = t /\ t # 0 /\ p.iephe = "MOS"
  BY <1>1, DateFacts DEF HasMosh
<1>3. DatedOK(s, p)
  BY <1>1 DEF Good, SlotsOK
<1>4. \A e \in p.x : e.src \in {"MOS", "none"}
  BY <1>2, <1>3 DEF DatedOK, NotByTheory
<1> QED
  BY <1>1, <1>4 DEF ByMosh, PlanType

LEMMA StoreMosh ==
  ASSUME NEW s, Good(s), NEW b \in Major \ {"sunbary"}, NEW t \in Dates, NEW x, ByMosh(x),
         \A e \in x : e.t = t, NEW r, r = Store(s, b, t, x, "MOS")
  PROVE  /\ Did(s, r) /\ r.fid = s.fid /\ SameSlots(s, r, Slots \ {b})
         /\ HasMosh(r, b, t)
<1>1. b \in Slots /\ t \in Day /\ x \in SUBSET Evals /\ FilesOK(s)
  BY DEF Major, Slots, Bodies, Day, ByMosh, Good
<1>2. /\ FilesOK(r) /\ Keeps(s, r) /\ r.fid = s.fid
      /\ r.pl[b].teval = t /\ r.pl[b].x = x /\ r.pl[b].iephe = "MOS"
      /\ r.pl[b].xflgs = Renew
      /\ \A c \in Slots \ {b} : r.pl[c] = s.pl[c]
  BY <1>1, PutStore
<1>3. SlotOK(s, b, r.pl[b])
  BY <1>2, NotFlags DEF SlotOK, FlaggedOK, DatedOK, TheoryOK, ByMosh, NotByTheory
<1>4. Good(r)
  BY <1>1, <1>2, <1>3, GoodPut
<1> QED
  BY <1>2, <1>4 DEF Did, SameSlots, SameSlot, HasMosh

MoshOf(s, t, b, x, do_save) ==
  IF s.pl[b].teval = t /\ s.pl[b].iephe = "MOS"
  THEN Result(s, "OK", s.pl[b].x)
  ELSE Result(IF do_save THEN Store(s, b, t, x, "MOS") ELSE s, "OK", x)

LEMMA MoshSlot ==
  ASSUME NEW s, Good(s), NEW b \in Major \ {"sunbary"}, NEW t \in AllDates, NEW x, ByMosh(x),
         NEW do_save \in BOOLEAN, do_save => t \in Dates /\ \A e \in x : e.t = t,
         NEW r, r = MoshOf(s, t, b, x, do_save)
  PROVE  /\ Moshed(s, r, IF do_save THEN {b} ELSE {}) /\ r = Result(r.s, r.rc, r.x)
         /\ do_save => HasMosh(r.s, b, t)
<1>1. CASE HasMosh(s, b, t)
  <2>1. r = Result(s, "OK", s.pl[b].x)
    BY <1>1 DEF MoshOf, HasMosh
  <2>2. r.s = s /\ r.rc = "OK" /\ r.x = s.pl[b].x
    BY <2>1 DEF Result
  <2>3. ByMosh(s.pl[b].x)
    BY <1>1, MoshFacts
  <2> QED
    BY <1>1, <2>1, <2>2, <2>3, DidSame, SameRefl DEF Moshed
<1>2. CASE ~HasMosh(s, b, t) /\ ~do_save
  <2>1. r = Result(s, "OK", x)
    BY <1>2 DEF MoshOf, HasMosh
  <2>2. r.s = s /\ r.rc = "OK" /\ r.x = x
    BY <2>1 DEF Result
  <2> QED
    BY <1>2, <2>1, <2>2, DidSame, SameRefl DEF Moshed
<1>3. CASE ~HasMosh(s, b, t) /\ do_save
  <2>1. PICK z : z = Store(s, b, t, x, "MOS")
    OBVIOUS
  <2>2. r = Result(z, "OK", x)
    BY <1>3, <2>1 DEF MoshOf, HasMosh
  <2>3. r.s = z /\ r.rc = "OK" /\ r.x = x
    BY <2>2 DEF Result
  <2>4. Did(s, z) /\ z.fid = s.fid /\ SameSlots(s, z, Slots \ {b}) /\ HasMosh(z, b, t)
    BY <1>3, <2>1, StoreMosh
  <2> QED
    BY <1>3, <2>2, <2>3, <2>4 DEF Moshed
<1> QED
  BY <1>1, <1>2, <1>3

LEMMA MoshMoon ==
  ASSUME NEW s, Good(s), NEW t \in AllDates,
         NEW do_save \in BOOLEAN, do_save => t \in Dates,
         NEW r, r = swi_moshmoon(s, t, do_save)
  PROVE  /\ Moshed(s, r, IF do_save THEN {"moon"} ELSE {}) /\ r = Result(r.s, r.rc, r.x)
         /\ do_save => HasMosh(r.s, "moon", t)
<1>1. "moon" \in Major /\ "moon" \in Major \ {"sunbary"}
  BY DEF Major
<1>2. PICK x : x = {Mosh("moon", t)}
  OBVIOUS
<1>3. ByMosh(x) /\ \A e \in x : e.t = t
  BY <1>1, <1>2, OneByMosh
<1>4. r = MoshOf(s, t, "moon", x, do_save)
  BY <1>2 DEF MoshOf, swi_moshmoon
<1> QED
  BY <1>1, <1>3, <1>4, MoshSlot

LEMMA MoshEarth ==
  ASSUME NEW s, Good(s), NEW t \in AllDates, s.oec \in Dates,
         NEW do_save \in BOOLEAN, do_save => t \in Dates /\ s.oec = t,
         NEW r, r = mosh_earth(s, t, do_save)
  PROVE  /\ Moshed(s, r, IF do_save THEN {"earth"} ELSE {}) /\ r = Result(r.s, r.rc, r.x)
         /\ do_save => HasMosh(r.s, "earth", t)
<1>1. PICK b \in Major \ {"sunbary"} : b = "earth"
  BY DEF Major
<1>2. PICK x : x = embofs_mosh(s, t)
  OBVIOUS
<1>3. ByMosh(x) /\ \A e \in x : e.t \in {t, s.oec}
  BY <1>2, Embofs
<1>4. do_save => t \in Dates /\ \A e \in x : e.t = t
  BY <1>3
<1>5. r = MoshOf(s, t, b, x, do_save)
  BY <1>1, <1>2 DEF MoshOf, mosh_earth
<1>6. /\ Moshed(s, r, IF do_save THEN {b} ELSE {}) /\ r = Result(r.s, r.rc, r.x)
      /\ do_save => HasMosh(r.s, b, t)
  BY <1>3, <1>4, <1>5, MoshSlot
<1> QED
  BY <1>1, <1>6

\* The planet and the earth of the date.
LEMMA Moshplan ==
  ASSUME NEW s, Good(s), NEW b \in Major \ {"sunbary"}, NEW t \in AllDates, s.oec \in Dates,
         NEW do_save \in BOOLEAN, do_save => t \in Dates /\ s.oec = t,
         NEW r, r = swi_moshplan(s, t, b, do_save)
  PROVE  /\ Moshed(s, r, IF do_save THEN {"earth", b} ELSE {}) /\ ByMosh(r.e) /\ r.sun = {}
         /\ r = Parts(Result(r.s, r.rc, r.x), r.e, r.sun)
         /\ do_save => HasMosh(r.s, "earth", t) /\ HasMosh(r.s, b, t)
<1>1. PICK e : e = mosh_earth(s, t, do_save)
  OBVIOUS
<1>2. /\ Moshed(s, e, IF do_save THEN {"earth"} ELSE {}) /\ e = Result(e.s, e.rc, e.x)
      /\ do_save => HasMosh(e.s, "earth", t)
  BY <1>1, MoshEarth
<1>3. CASE b = "earth"
  <2>1. r = Parts(e, e.x, {})
    BY <1>1, <1>3 DEF swi_moshplan, Then
  <2>2. /\ r.s = e.s /\ r.rc = e.rc /\ r.x = e.x /\ r.e = e.x /\ r.sun = {}
        /\ r = Parts(Result(r.s, r.rc, r.x), r.e, r.sun)
    BY <1>2, <2>1 DEF Parts, Result
  <2> QED
    BY <1>2, <1>3, <2>2 DEF Moshed
<1>4. CASE b # "earth"
  <2>1. PICK p : p = MoshOf(e.s, t, b, {Mosh(b, t)}, do_save)
    OBVIOUS
  <2>2. Good(e.s)
    BY <1>2 DEF Moshed, Did
  <2>3. PICK x : x = {Mosh(b, t)}
    OBVIOUS
  <2>4. ByMosh(x) /\ \A v \in x : v.t = t
    BY <2>3, OneByMosh
  <2>5. /\ Moshed(e.s, p, IF do_save THEN {b} ELSE {}) /\ p = Result(p.s, p.rc, p.x)
        /\ do_save => HasMosh(p.s, b, t)
    BY <2>1, <2>2, <2>3, <2>4, MoshSlot
  <2>6. r = Parts(p, e.x, {})
    BY <1>1, <1>4, <2>1 DEF swi_moshplan, MoshOf, Then
  <2>7. /\ r.s = p.s /\ r.rc = p.rc /\ r.x = p.x /\ r.e = e.x /\ r.sun = {}
        /\ r = Parts(Result(r.s, r.rc, r.x), r.e, r.sun)
    BY <2>5, <2>6 DEF Parts, Result
  <2>8. Did(s, p.s)
    BY <1>2, <2>5, DidTrans DEF Moshed
  <2>9. SameSlots(s, p.s, Slots \ (IF do_save THEN {"earth", b} ELSE {}))
    BY <1>2, <2>5 DEF Moshed, SameSlots, SameSlot
  <2>10. do_save => HasMosh(p.s, "earth", t)
    <3>1. "earth" \in Slots \ {b}
      BY <1>4 DEF Slots, Bodies
    <3> QED
      BY <1>2, <2>5, <3>1 DEF Moshed, SameSlots, SameSlot, HasMosh
  <2> QED
    BY <1>2, <2>5, <2>7, <2>8, <2>9, <2>10 DEF Moshed
<1> QED
  BY <1>3, <1>4

-----------------------------------------------------------------------------
(* Apparent positions.                                                      *)

\* What a function of the apparent position does to the structure: the slot
\* b has the answer for the flags f, everything else keeps what it had.
Shown(s, r, b, f) ==
  /\ Good(r) /\ Keeps(s, r) /\ SameSlots(s, r, Slots \ {b})
  /\ r.pl[b].teval = s.pl[b].teval /\ r.pl[b].x = s.pl[b].x
  /\ r.pl[b].xflgs = f /\ r.pl[b].iephe = f.eph

\* A position of a date, by the theory of the flags
HasTheory(s, b, f) == s.pl[b].teval \in Dates /\ s.pl[b].iephe = f.eph

LEMMA TypedX ==
  ASSUME NEW s, Good(s), NEW b \in Slots PROVE s.pl[b].x \in SUBSET Evals
BY DEF Good, FilesOK, Swed, PlanType

LEMMA ByTheory ==
  ASSUME NEW s, Good(s), NEW b \in Major, NEW f, HasTheory(s, b, f)
  PROVE  /\ By(s.pl[b].x, f.eph) /\ s.pl[b].x \in SUBSET Evals
         /\ f.eph = "SWI" => OnFiles(s)
<1>1. s.pl[b].teval # 0
  BY DateFacts DEF HasTheory
<1>2. DatedOK(s, s.pl[b])
  BY DEF Good, SlotsOK
<1>3. s.pl[b].x \in SUBSET Evals
  BY TypedX DEF Major, Slots, Bodies
<1> QED
  BY <1>1, <1>2, <1>3 DEF DatedOK, HasTheory, By, NotByTheory

LEMMA ByFiles ==
  ASSUME NEW x, NEW t, FromFiles(x, t)
  PROVE  By(x, "SWI") /\ x \in SUBSET Evals
BY DEF FromFiles, OfDate, By

LEMMA ByMoshier == ASSUME NEW x, ByMosh(x) PROVE By(x, "MOS") /\ x \in SUBSET Evals
BY DEF ByMosh, By

LEMMA ByBoth ==
  ASSUME NEW x, NEW y, NEW eph, By(x, eph), By(y, eph)
  PROVE  By(x \cup y, eph)
BY DEF By

\* A position made from three sets of evaluations
PosOf(a, o, p) == [NoPos EXCEPT !.true = a, !.obs = o, !.app = p]

LEMMA Made ==
  ASSUME NEW a \in SUBSET Evals, NEW o \in SUBSET Evals, NEW p \in SUBSET Evals,
         NEW eph, By(a, eph), By(o, eph), By(p, eph), NEW pos, pos = PosOf(a, o, p)
  PROVE  pos \in PosType /\ Pure(pos, eph)
<1>1. pos = [true |-> a, obs |-> o, app |-> p, spd |-> FALSE, oec |-> 0, nut |-> 0, nutv |-> 0]
  BY DEF PosOf, NoPos
<1>2. pos.true = a /\ pos.obs = o /\ pos.app = p
  BY <1>1
<1> QED
  BY <1>1, <1>2 DEF PosType, Pure, Day

LEMMA Rest ==
  ASSUME NEW s, Good(s), NEW b \in Slots, NEW f \in Flags, NEW pos \in PosType,
         Pure(pos, f.eph), b \in Major => s.pl[b].iephe = f.eph,
         NEW r, r = app_pos_rest(s, b, f, pos)
  PROVE  Shown(s, r.s, b, f) /\ r.s.fid = s.fid /\ r.rc = "OK" /\ r = Result(r.s, r.rc, r.x)
<1>1. /\ FilesOK(s) /\ s.oec \in Day /\ s.nut \in Day /\ s.nutv \in Day
      /\ f.speed \in BOOLEAN
  BY DEF Good, FilesOK, Swed, Flags
<1>2. PICK p : p = [pos EXCEPT !.spd = f.speed]
  OBVIOUS
<1>3. p \in PosType /\ p.true = pos.true /\ p.obs = pos.obs /\ p.app = pos.app
  BY <1>1, <1>2 DEF PosType
<1>4. PICK v \in Day : v = IF f.speed THEN s.nutv ELSE 0
  BY <1>1 DEF Day
<1>5. PICK n : n = [p EXCEPT !.nut = s.nut, !.nutv = v]
  OBVIOUS
<1>6. n \in PosType /\ n.true = pos.true /\ n.obs = pos.obs /\ n.app = pos.app
  BY <1>1, <1>3, <1>5 DEF PosType
<1>7. PICK d : d = [n EXCEPT !.oec = s.oec]
  OBVIOUS
<1>8. d \in PosType /\ d.true = pos.true /\ d.obs = pos.obs /\ d.app = pos.app
  BY <1>1, <1>6, <1>7 DEF PosType
<1>9. PICK x : x = IF f.raw THEN p ELSE d
  OBVIOUS
<1>10. x \in PosType /\ Pure(x, f.eph)
  BY <1>3, <1>8, <1>9 DEF Pure
<1>11. PICK z : z = SetAnswer(s, b, x, f)
  OBVIOUS
<1>12. r = Result(z, "OK", {})
  BY <1>2, <1>4, <1>5, <1>7, <1>9, <1>11 DEF app_pos_rest, swi_nutate, SetAnswer
<1>13. r.s = z /\ r.rc = "OK" /\ r = Result(r.s, r.rc, r.x)
  BY <1>12 DEF Result
<1>14. /\ FilesOK(z) /\ Keeps(s, z) /\ z.fid = s.fid
       /\ z.pl[b].teval = s.pl[b].teval /\ z.pl[b].x = s.pl[b].x
       /\ z.pl[b].xret = x /\ z.pl[b].xflgs = f /\ z.pl[b].iephe = f.eph
       /\ \A c \in Slots \ {b} : z.pl[c] = s.pl[c]
  BY <1>1, <1>10, <1>11, PutAnswer
<1>15. SlotOK(s, b, z.pl[b])
  <2>1. FlaggedOK(z.pl[b])
    BY <1>10, <1>14 DEF FlaggedOK
  <2>2. b \in Major => DatedOK(s, z.pl[b]) /\ TheoryOK(z.pl[b])
    BY <1>14 DEF DatedOK, TheoryOK, NotByTheory, Good, SlotsOK
  <2>3. b = "sunbary" => /\ \A e \in z.pl[b].x : e.src = "SWI"
                         /\ z.pl[b].x # {} => OnFiles(s)
    BY <1>14 DEF Good, SlotsOK, SunOK
  <2> QED
    BY <2>1, <2>2, <2>3 DEF SlotOK
<1>16. Good(z)
  BY <1>14, <1>15, GoodPut
<1> QED
  BY <1>13, <1>14, <1>16 DEF Shown, SameSlots, SameSlot

LEMMA Again ==
  ASSUME NEW s, Good(s), NEW b \in Slots, NEW f \in Flags, Same(s, b, f),
         NEW r, r = again(s, b, f)
  PROVE  Shown(s, r.s, b, f) /\ r.s.fid = s.fid /\ r.rc = "OK" /\ r = Result(r.s, r.rc, r.x)
<1>0. PICK i \in Theories : i = f.eph
  BY DEF Flags, Theories
<1>1. FilesOK(s)
  BY DEF Good
<1>2. PICK p \in PlanType : p = s.pl[b]
  BY <1>1 DEF FilesOK, Swed
<1>3. PICK z : z = SetIephe(s, b, f.eph)
  OBVIOUS
<1>4. r = Result(z, "OK", {})
  BY <1>3 DEF again, SetIephe
<1>5. r.s = z /\ r.rc = "OK" /\ r = Result(r.s, r.rc, r.x)
  BY <1>4 DEF Result
<1>6. /\ FilesOK(z) /\ Keeps(s, z) /\ z.fid = s.fid
      /\ z.pl[b].teval = s.pl[b].teval /\ z.pl[b].x = s.pl[b].x
      /\ z.pl[b].xret = s.pl[b].xret /\ z.pl[b].xflgs = s.pl[b].xflgs
      /\ z.pl[b].iephe = f.eph
      /\ \A c \in Slots \ {b} : z.pl[c] = s.pl[c]
  <2>2. z = SetIephe(s, b, i)
    BY <1>0, <1>3
  <2>3. /\ FilesOK(z) /\ Keeps(s, z) /\ z.fid = s.fid
        /\ z.pl[b].teval = s.pl[b].teval /\ z.pl[b].x = s.pl[b].x
        /\ z.pl[b].xret = s.pl[b].xret /\ z.pl[b].xflgs = s.pl[b].xflgs
        /\ z.pl[b].iephe = i
        /\ \A c \in Slots \ {b} : z.pl[c] = s.pl[c]
    BY <1>1, <2>2, PutIephe
  <2> QED
    BY <1>0, <2>3
<1>7. PICK q : q = z.pl[b]
  OBVIOUS
<1>9. /\ q.teval = p.teval /\ q.x = p.x /\ q.xflgs = f /\ q.xret = p.xret /\ q.iephe = f.eph
      /\ p.xflgs = f
  BY <1>2, <1>6, <1>7 DEF Same
<1>10. SlotOK(s, b, q)
  <2>1. FlaggedOK(q)
    BY <1>2, <1>9 DEF Good, SlotsOK, FlaggedOK
  <2>2. b \in Major => DatedOK(s, q) /\ TheoryOK(q)
    <3>1. ASSUME b \in Major PROVE DatedOK(s, q) /\ TheoryOK(q)
      <4>1. DatedOK(s, p) /\ p.iephe = f.eph
        BY <1>2, <1>9, <3>1 DEF Good, SlotsOK, TheoryOK
      <4> QED
        BY <1>9, <4>1 DEF DatedOK, TheoryOK, NotByTheory
    <3> QED
      BY <3>1
  <2>3. b = "sunbary" => /\ \A e \in q.x : e.src = "SWI"
                         /\ q.x # {} => OnFiles(s)
    BY <1>2, <1>9 DEF Good, SlotsOK, SunOK
  <2> QED
    BY <2>1, <2>2, <2>3 DEF SlotOK
<1>11. Good(z)
  BY <1>6, <1>7, <1>10, GoodPut
<1> QED
  BY <1>2, <1>5, <1>6, <1>7, <1>9, <1>11 DEF Shown, SameSlots, SameSlot

\* The sun that bends the light is by the theory of the earth.
LEMMA Deflecting ==
  ASSUME NEW s, Good(s), NEW f, s.pl["earth"].iephe = f.eph
  PROVE  deflecting(s) \in SUBSET Evals /\ By(deflecting(s), f.eph)
<1>1. "sunbary" \in Slots
  BY DEF Slots, Bodies
<1>2. s.pl["sunbary"].x \in SUBSET Evals /\ By(s.pl["sunbary"].x, "SWI")
  BY <1>1, TypedX DEF Good, SlotsOK, SunOK, By
<1> QED
  BY <1>2 DEF deflecting, By

\* The planet and the earth of the light-time date, without a trace in the
\* slots.
LEMMA LightTime ==
  ASSUME NEW s, Good(s), NEW b \in Major \ {"sunbary"}, NEW t \in AllDates, NEW f \in Flags,
         s.oec \in Dates, f.eph = "SWI" => OnFiles(s),
         NEW l, l = at_light_time(s, t, b, f)
  PROVE  /\ Did(s, l.s) /\ SameSlots(s, l.s, Slots) /\ (f.eph = "MOS" => l.s.fid = s.fid)
         /\ l.rc = "OK" /\ By(l.x, f.eph) /\ By(l.e, f.eph)
         /\ l.x \in SUBSET Evals /\ l.e \in SUBSET Evals
<1>0. b # "chiron" /\ f.eph \in {"MOS", "SWI"}
  BY DEF Major, Flags
<1>1. CASE f.eph = "MOS" /\ ~f.speed
  <2>1. l = Parts(Result(s, "OK", {}), {}, {})
    BY <1>1 DEF at_light_time
  <2>2. l.s = s /\ l.rc = "OK" /\ l.x = {} /\ l.e = {}
    BY <2>1 DEF Parts, Result
  <2> QED
    BY <2>2, DidSame, SameRefl DEF By
<1>2. CASE f.eph = "MOS" /\ f.speed
  <2>1. l = swi_moshplan(s, t, b, FALSE)
    BY <1>0, <1>2 DEF at_light_time
  <2>2. PICK d \in BOOLEAN : d = FALSE
    OBVIOUS
  <2>3. l = swi_moshplan(s, t, b, d) /\ (d => t \in Dates /\ s.oec = t)
    BY <2>1, <2>2
  <2>4. /\ Moshed(s, l, IF d THEN {"earth", b} ELSE {}) /\ ByMosh(l.e) /\ l.sun = {}
        /\ l = Parts(Result(l.s, l.rc, l.x), l.e, l.sun)
        /\ d => HasMosh(l.s, "earth", t) /\ HasMosh(l.s, b, t)
    BY <2>3, Moshplan
  <2>5. /\ Did(s, l.s) /\ l.s.fid = s.fid /\ l.rc = "OK" /\ ByMosh(l.x)
        /\ SameSlots(s, l.s, Slots)
    BY <2>2, <2>4 DEF Moshed
  <2>6. /\ By(l.x, "MOS") /\ l.x \in SUBSET Evals
        /\ By(l.e, "MOS") /\ l.e \in SUBSET Evals
    BY <2>4, <2>5, ByMoshier
  <2> QED
    BY <1>2, <2>5, <2>6
<1>3. CASE f.eph = "SWI"
  <2>1. l = Looks(s, t, b, f)
    BY <1>0, <1>3 DEF at_light_time, Looks
  <2>2. /\ Looked(s, l, t, {}) /\ SameSlots(s, l.s, Slots)
        /\ l.rc = "OK" => FromFiles(l.e, t)
    BY <1>3, <2>1, SweplanLooks DEF OnFiles
  <2>3. l.rc = "OK" /\ FromFiles(l.x, t)
    BY <1>3, <2>2 DEF Looked, OnFiles
  <2> QED
    BY <1>3, <2>2, <2>3, ByFiles DEF Looked
<1> QED
  BY <1>0, <1>1, <1>2, <1>3

LEMMA AppPlan ==
  ASSUME NEW s, Good(s), NEW f \in Flags, NEW b \in Major \ {"sunbary"}, s.oec \in Dates,
         HasTheory(s, b, f), HasTheory(s, "earth", f),
         NEW r, r = app_pos_etc_plan(s, b, f)
  PROVE  /\ Shown(s, r.s, b, f) /\ r.rc = "OK" /\ r = Result(r.s, r.rc, r.x)
         /\ r.s.fid["seas"] = s.fid["seas"] /\ (f.eph = "MOS" => r.s.fid = s.fid)
<1>0. b \in Slots /\ "earth" \in Slots /\ "earth" \in Major
  BY DEF Major, Slots, Bodies
<1>1. CASE Same(s, b, f)
  <2>1. r = again(s, b, f)
    BY <1>1 DEF app_pos_etc_plan
  <2> QED
    BY <1>0, <1>1, <2>1, Again
<1>2. CASE ~Same(s, b, f)
  <2>1. PICK l : l = at_light_time(s, LT(s.pl[b].teval), b, f)
    OBVIOUS
  <2>2. LT(s.pl[b].teval) \in AllDates /\ (f.eph = "SWI" => OnFiles(s))
    BY <1>0, DateFacts, ByTheory DEF HasTheory
  <2>3. /\ Did(s, l.s) /\ SameSlots(s, l.s, Slots) /\ (f.eph = "MOS" => l.s.fid = s.fid)
        /\ l.rc = "OK" /\ By(l.x, f.eph) /\ By(l.e, f.eph)
        /\ l.x \in SUBSET Evals /\ l.e \in SUBSET Evals
    BY <2>1, <2>2, LightTime
  <2>4. Good(l.s) /\ HasTheory(l.s, b, f) /\ HasTheory(l.s, "earth", f)
    BY <1>0, <2>3 DEF Did, SameSlots, SameSlot, HasTheory
  <2>5. /\ By(l.s.pl[b].x, f.eph) /\ l.s.pl[b].x \in SUBSET Evals
        /\ By(l.s.pl["earth"].x, f.eph) /\ l.s.pl["earth"].x \in SUBSET Evals
        /\ By(deflecting(l.s), f.eph) /\ deflecting(l.s) \in SUBSET Evals
    BY <1>0, <2>4, ByTheory, Deflecting DEF HasTheory
  <2>6. PICK pos : pos = PosOf(l.s.pl[b].x, l.s.pl["earth"].x \cup deflecting(l.s), l.x \cup l.e)
    OBVIOUS
  <2>7. pos \in PosType /\ Pure(pos, f.eph)
    <3>1. /\ By(l.s.pl["earth"].x \cup deflecting(l.s), f.eph)
          /\ By(l.x \cup l.e, f.eph)
      BY <2>3, <2>5, ByBoth
    <3>2. /\ l.s.pl["earth"].x \cup deflecting(l.s) \in SUBSET Evals
          /\ l.x \cup l.e \in SUBSET Evals
      BY <2>3, <2>5
    <3> QED
      BY <2>5, <2>6, <3>1, <3>2, Made
  <2>8. r = app_pos_rest(l.s, b, f, pos)
    BY <1>2, <2>1, <2>3, <2>6 DEF app_pos_etc_plan, Then, PosOf
  <2>9. Shown(l.s, r.s, b, f) /\ r.s.fid = l.s.fid /\ r.rc = "OK" /\ r = Result(r.s, r.rc, r.x)
    BY <1>0, <2>4, <2>7, <2>8, Rest DEF HasTheory
  <2>10. Shown(s, r.s, b, f)
    BY <1>0, <2>3, <2>9 DEF Shown, Did, Keeps, SameSlots, SameSlot
  <2> QED
    BY <2>3, <2>9, <2>10 DEF Did
<1> QED
  BY <1>1, <1>2

\* The barycentric sun of the light-time date
SunThen(s, t, f) == sweph(s, t, "sunbary", f, {}, FALSE)

LEMMA SunLooks ==
  ASSUME NEW s, Good(s), NEW t \in AllDates, NEW f, OnFiles(s),
         NEW r, r = SunThen(s, t, f)
  PROVE  Did(s, r.s) /\ SameSlots(s, r.s, Slots) /\ r.rc = "OK" /\ FromFiles(r.x, t)
<1>1. PICK d \in BOOLEAN : d = FALSE
  OBVIOUS
<1>2. PICK b \in Major : b = "sunbary"
  BY DEF Major
<1>3. r = Major_sweph(s, t, b, f, d) /\ MaySave(s, t, d)
  BY <1>1, <1>2 DEF SunThen, Major_sweph, OnFiles, MaySave
<1>4. Looked(s, r, t, IF d THEN {b} ELSE {})
  BY <1>3, Sweph
<1> QED
  BY <1>1, <1>4 DEF Looked, OnFiles

LEMMA AppSun ==
  ASSUME NEW s, Good(s), NEW f \in Flags, HasTheory(s, "earth", f),
         NEW r, r = app_pos_etc_sun(s, f)
  PROVE  /\ Shown(s, r.s, "earth", f) /\ r.rc = "OK" /\ r = Result(r.s, r.rc, r.x)
         /\ r.s.fid["seas"] = s.fid["seas"] /\ (f.eph = "MOS" => r.s.fid = s.fid)
<1>0. PICK b \in Major \ {"sunbary"} : b = "earth"
  BY DEF Major
<1>1. b \in Slots /\ "sunbary" \in Slots /\ f.eph \in {"MOS", "SWI"}
  BY DEF Major, Slots, Bodies, Flags
<1>2. CASE Same(s, b, f)
  <2>1. r = again(s, b, f)
    BY <1>0, <1>2 DEF app_pos_etc_sun
  <2>2. Shown(s, r.s, b, f) /\ r.s.fid = s.fid /\ r.rc = "OK" /\ r = Result(r.s, r.rc, r.x)
    BY <1>1, <1>2, <2>1, Again
  <2> QED
    BY <1>0, <2>2
<1>3. CASE ~Same(s, b, f)
  <2>1. PICK l : l = sun_at_light_time(s, s.pl[b], f)
    OBVIOUS
  <2>2. /\ LT(s.pl[b].teval) \in AllDates /\ (f.eph = "SWI" => OnFiles(s))
        /\ By(s.pl[b].x, f.eph) /\ s.pl[b].x \in SUBSET Evals
        /\ s.pl[b].iephe = f.eph
    BY <1>0, <1>1, DateFacts, ByTheory DEF HasTheory
  <2>3. /\ Did(s, l.s) /\ SameSlots(s, l.s, Slots) /\ (f.eph = "MOS" => l.s.fid = s.fid)
        /\ l.rc = "OK" /\ By(l.x, f.eph) /\ l.x \in SUBSET Evals
    <3>1. CASE f.eph = "SWI"
      <4>1. l = SunThen(s, LT(s.pl[b].teval), f)
        BY <2>1, <2>2, <3>1 DEF sun_at_light_time, SunThen
      <4>2. /\ Did(s, l.s) /\ SameSlots(s, l.s, Slots) /\ l.rc = "OK"
            /\ FromFiles(l.x, LT(s.pl[b].teval))
        BY <2>2, <3>1, <4>1, SunLooks
      <4> QED
        BY <3>1, <4>2, ByFiles
    <3>2. CASE f.eph = "MOS"
      <4>1. l = Result(s, "OK", {})
        BY <2>1, <2>2, <3>2 DEF sun_at_light_time
      <4>2. l.s = s /\ l.rc = "OK" /\ l.x = {}
        BY <4>1 DEF Result
      <4> QED
        BY <4>2, DidSame, SameRefl DEF By
    <3> QED
      BY <1>1, <3>1, <3>2
  <2>4. PICK o : o = IF s.pl[b].iephe = "MOS" THEN {} ELSE s.pl["sunbary"].x
    OBVIOUS
  <2>5. o \in SUBSET Evals /\ By(o, f.eph)
    BY <1>1, <2>2, <2>4, TypedX DEF Good, SlotsOK, SunOK, By
  <2>6. PICK pos : pos = PosOf(s.pl[b].x, o, l.x)
    OBVIOUS
  <2>7. pos \in PosType /\ Pure(pos, f.eph)
    BY <2>2, <2>3, <2>5, <2>6, Made
  <2>8. r = app_pos_rest(l.s, b, f, pos)
    <3>1. pos = [NoPos EXCEPT !.true = s.pl[b].x, !.app = l.x, !.obs = o]
      BY <2>6 DEF PosOf, NoPos
    <3> QED
      BY <1>0, <1>3, <2>1, <2>3, <2>4, <3>1 DEF app_pos_etc_sun, Then
  <2>9. Good(l.s) /\ l.s.pl[b].iephe = f.eph
    BY <1>1, <2>2, <2>3 DEF Did, SameSlots, SameSlot
  <2>10. Shown(l.s, r.s, b, f) /\ r.s.fid = l.s.fid /\ r.rc = "OK" /\ r = Result(r.s, r.rc, r.x)
    BY <1>1, <2>7, <2>8, <2>9, Rest
  <2>11. Shown(s, r.s, b, f)
    BY <1>1, <2>3, <2>10 DEF Shown, Did, Keeps, SameSlots, SameSlot
  <2> QED
    BY <1>0, <2>3, <2>10, <2>11 DEF Did
<1> QED
  BY <1>2, <1>3

LEMMA AppMoon ==
  ASSUME NEW s, Good(s), NEW f \in Flags, HasTheory(s, "moon", f), HasTheory(s, "earth", f),
         NEW r, r = app_pos_etc_moon(s, f)
  PROVE  /\ Shown(s, r.s, "moon", f) /\ r.rc = "OK" /\ r = Result(r.s, r.rc, r.x)
         /\ r.s.fid["seas"] = s.fid["seas"] /\ (f.eph = "MOS" => r.s.fid = s.fid)
<1>0. PICK b \in Major \ {"sunbary"} : b = "moon"
  BY DEF Major
<1>1. b \in Slots /\ "earth" \in Major /\ f.eph \in {"MOS", "SWI"}
  BY DEF Major, Slots, Bodies, Flags
<1>2. CASE Same(s, b, f)
  <2>1. r = again(s, b, f)
    BY <1>0, <1>2 DEF app_pos_etc_moon
  <2>2. Shown(s, r.s, b, f) /\ r.s.fid = s.fid /\ r.rc = "OK" /\ r = Result(r.s, r.rc, r.x)
    BY <1>1, <1>2, <2>1, Again
  <2> QED
    BY <1>0, <2>2
<1>3. CASE ~Same(s, b, f)
  <2>1. PICK l : l = IF s.pl[b].iephe = "SWI" /\ ~f.raw THEN Looks(s, LT(s.pl[b].teval), b, f)
                     ELSE Parts(Result(s, "OK", {}), {}, {})
    OBVIOUS
  <2>2. /\ LT(s.pl[b].teval) \in AllDates /\ (f.eph = "SWI" => OnFiles(s))
        /\ By(s.pl[b].x, f.eph) /\ s.pl[b].x \in SUBSET Evals
        /\ By(s.pl["earth"].x, f.eph) /\ s.pl["earth"].x \in SUBSET Evals
        /\ s.pl[b].iephe = f.eph
    BY <1>0, <1>1, DateFacts, ByTheory DEF HasTheory
  <2>3. /\ Did(s, l.s) /\ SameSlots(s, l.s, Slots) /\ (f.eph = "MOS" => l.s.fid = s.fid)
        /\ l.rc = "OK" /\ By(l.x \cup l.e, f.eph) /\ l.x \cup l.e \in SUBSET Evals
    <3>1. CASE f.eph = "SWI" /\ ~f.raw
      <4>1. l = Looks(s, LT(s.pl[b].teval), b, f)
        BY <2>1, <2>2, <3>1
      <4>2. PICK t \in AllDates : t = LT(s.pl[b].teval)
        BY <2>2
      <4>3. /\ Looked(s, l, t, {}) /\ SameSlots(s, l.s, Slots)
            /\ l.rc = "OK" => FromFiles(l.e, t)
        BY <2>2, <3>1, <4>1, <4>2, SweplanLooks DEF OnFiles
      <4>4. Did(s, l.s) /\ l.rc = "OK" /\ FromFiles(l.x, t) /\ FromFiles(l.e, t)
        BY <2>2, <3>1, <4>3 DEF Looked, OnFiles
      <4> QED
        BY <3>1, <4>3, <4>4, ByFiles DEF By
    <3>2. CASE ~(f.eph = "SWI" /\ ~f.raw)
      <4>1. l = Parts(Result(s, "OK", {}), {}, {})
        BY <2>1, <2>2, <3>2
      <4>2. l.s = s /\ l.rc = "OK" /\ l.x = {} /\ l.e = {}
        BY <4>1 DEF Parts, Result
      <4> QED
        BY <4>2, DidSame, SameRefl DEF By
    <3> QED
      BY <3>1, <3>2
  <2>4. PICK pos : pos = PosOf(s.pl[b].x, s.pl["earth"].x, l.x \cup l.e)
    OBVIOUS
  <2>5. pos \in PosType /\ Pure(pos, f.eph)
    BY <2>2, <2>3, <2>4, Made
  <2>6. r = app_pos_rest(l.s, b, f, pos)
    BY <1>0, <1>3, <2>1, <2>3, <2>4 DEF app_pos_etc_moon, Then, PosOf, Looks
  <2>7. Good(l.s) /\ l.s.pl[b].iephe = f.eph
    BY <1>1, <2>2, <2>3 DEF Did, SameSlots, SameSlot
  <2>8. Shown(l.s, r.s, b, f) /\ r.s.fid = l.s.fid /\ r.rc = "OK" /\ r = Result(r.s, r.rc, r.x)
    BY <1>1, <2>5, <2>6, <2>7, Rest
  <2>9. Shown(s, r.s, b, f)
    BY <1>1, <2>3, <2>8 DEF Shown, Did, Keeps, SameSlots, SameSlot
  <2> QED
    BY <1>0, <2>3, <2>8, <2>9 DEF Did
<1> QED
  BY <1>2, <1>3

-----------------------------------------------------------------------------
(* The earth, and the planets: from the files, or Moshier's where there     *)
(* are none.                                                                *)

\* The flags an answer is given with
Effective(s, f) == IF f.eph = "SWI" /\ Exists(s, "sepl") THEN f ELSE Mos(f)

LEMMA MosFacts ==
  ASSUME NEW f \in Flags
  PROVE  Mos(f) \in Flags /\ Mos(f).eph = "MOS" /\ (f.eph = "MOS" => Mos(f) = f)
BY DEF Mos, Flags

LEMMA EffectiveFacts ==
  ASSUME NEW s, NEW f \in Flags
  PROVE  /\ Effective(s, f) \in Flags
         /\ f.eph = "SWI" /\ Exists(s, "sepl") => Effective(s, f) = f
         /\ ~(f.eph = "SWI" /\ Exists(s, "sepl")) => Effective(s, f) = Mos(f)
         /\ f.eph = "MOS" => Effective(s, f) = f
BY MosFacts DEF Effective

\* The two ways Moshier's theory is asked
LooksMosh(s, t, b) == swi_moshplan(s, t, b, FALSE)
SavesMosh(s, t, b) == swi_moshplan(s, t, b, TRUE)

LEMMA MoshplanLooks ==
  ASSUME NEW s, Good(s), NEW b \in Major \ {"sunbary"}, NEW t \in AllDates, s.oec \in Dates,
         NEW r, r = LooksMosh(s, t, b)
  PROVE  Moshed(s, r, {}) /\ SameSlots(s, r.s, Slots) /\ ByMosh(r.e) /\ r.sun = {}
<1>1. PICK d \in BOOLEAN : d = FALSE
  OBVIOUS
<1>2. r = swi_moshplan(s, t, b, d) /\ (d => t \in Dates /\ s.oec = t)
  BY <1>1 DEF LooksMosh
<1>3. /\ Moshed(s, r, IF d THEN {"earth", b} ELSE {}) /\ ByMosh(r.e) /\ r.sun = {}
      /\ d => HasMosh(r.s, "earth", t) /\ HasMosh(r.s, b, t)
  BY <1>2, Moshplan
<1> QED
  BY <1>1, <1>3 DEF Moshed

LEMMA MoshplanSaves ==
  ASSUME NEW s, Good(s), NEW b \in Major \ {"sunbary"}, NEW t \in Dates, s.oec = t,
         NEW r, r = SavesMosh(s, t, b)
  PROVE  /\ Moshed(s, r, {"earth", b}) /\ ByMosh(r.e) /\ r.sun = {}
         /\ HasMosh(r.s, "earth", t) /\ HasMosh(r.s, b, t)
<1>1. PICK d \in BOOLEAN : d = TRUE
  OBVIOUS
<1>2. r = swi_moshplan(s, t, b, d) /\ (d => t \in Dates /\ s.oec = t) /\ s.oec \in Dates
  BY <1>1 DEF SavesMosh
<1>0. t \in AllDates
  BY DateFacts
<1>3. /\ Moshed(s, r, IF d THEN {"earth", b} ELSE {}) /\ ByMosh(r.e) /\ r.sun = {}
      /\ d => HasMosh(r.s, "earth", t) /\ HasMosh(r.s, b, t)
  BY <1>0, <1>2, Moshplan
<1> QED
  BY <1>1, <1>3

\* The earth of any date
BaryLooks(s, t, f) == main_planet_bary(s, t, f, FALSE)
BarySaves(s, t, f) == main_planet_bary(s, t, f, TRUE)

LEMMA BaryLooksIs ==
  ASSUME NEW s, Good(s), NEW t \in AllDates, NEW f \in Flags, s.oec \in Dates,
         f.eph = "SWI" => s.lasteph = "SWI",
         NEW r, r = BaryLooks(s, t, f), NEW g, g = Effective(s, f)
  PROVE  /\ Did(s, r.s) /\ SameSlots(s, r.s, Slots) /\ r.rc = "OK"
         /\ f.eph = "MOS" => r.s.fid = s.fid
         /\ By(r.x, g.eph) /\ By(r.sun, g.eph)
         /\ r.x \in SUBSET Evals /\ r.sun \in SUBSET Evals
<1>0. PICK b \in Major \ {"sunbary"} : b = "earth"
  BY DEF Major
<1>1. f.eph \in {"MOS", "SWI"}
  BY DEF Flags
<1>2. CASE f.eph = "MOS"
  <2>1. r = LooksMosh(s, t, b)
    BY <1>0, <1>2 DEF BaryLooks, main_planet_bary, LooksMosh
  <2>2. Moshed(s, r, {}) /\ SameSlots(s, r.s, Slots) /\ r.sun = {}
    BY <2>1, MoshplanLooks
  <2>3. g.eph = "MOS"
    BY <1>2, EffectiveFacts
  <2> QED
    BY <2>2, <2>3, ByMoshier DEF Moshed, By
<1>3. CASE f.eph = "SWI"
  <2>1. PICK w : w = Looks(s, t, b, f)
    OBVIOUS
  <2>2. /\ Looked(s, w, t, {}) /\ SameSlots(s, w.s, Slots)
        /\ w.rc = "OK" => FromFiles(w.e, t) /\ FromFiles(w.sun, t)
    BY <1>3, <2>1, SweplanLooks
  <2>3. CASE w.rc = "OK"
    <3>1. r = w
      BY <1>0, <1>3, <2>1, <2>3 DEF BaryLooks, main_planet_bary, Looks, Then
    <3>2. g.eph = "SWI"
      BY <1>3, <2>2, <2>3, EffectiveFacts DEF Looked
    <3> QED
      BY <1>3, <2>2, <2>3, <3>1, <3>2, ByFiles DEF Looked
  <2>4. CASE w.rc = "NA"
    <3>1. r = LooksMosh(w.s, t, b)
      BY <1>0, <1>3, <2>1, <2>4 DEF BaryLooks, main_planet_bary, Looks, LooksMosh, Then
    <3>2. Good(w.s) /\ w.s.oec \in Dates
      BY <2>2 DEF Looked, Did, Keeps
    <3>3. Moshed(w.s, r, {}) /\ SameSlots(w.s, r.s, Slots) /\ r.sun = {}
      BY <3>1, <3>2, MoshplanLooks
    <3>4. g.eph = "MOS"
      BY <2>2, <2>4, EffectiveFacts, MosFacts DEF Looked
    <3>5. Did(s, r.s) /\ SameSlots(s, r.s, Slots)
      BY <2>2, <3>3, DidTrans, SameTrans DEF Looked, Moshed
    <3> QED
      BY <1>3, <3>3, <3>4, <3>5, ByMoshier DEF Moshed, By
  <2> QED
    BY <2>2, <2>3, <2>4 DEF Looked
<1> QED
  BY <1>1, <1>2, <1>3

LEMMA BarySavesIs ==
  ASSUME NEW s, Good(s), NEW t \in Dates, NEW f \in Flags, s.oec = t,
         f.eph = "SWI" => s.lasteph = "SWI",
         NEW r, r = BarySaves(s, t, f), NEW g, g = Effective(s, f)
  PROVE  /\ Did(s, r.s) /\ r.rc = "OK"
         /\ f.eph = "MOS" => r.s.fid = s.fid
         /\ By(r.x, g.eph) /\ r.x \in SUBSET Evals /\ HasTheory(r.s, "earth", g)
<1>0. PICK b \in Major \ {"sunbary"} : b = "earth"
  BY DEF Major
<1>1. f.eph \in {"MOS", "SWI"}
  BY DEF Flags
<1>2. CASE f.eph = "MOS"
  <2>1. r = SavesMosh(s, t, b)
    BY <1>0, <1>2 DEF BarySaves, main_planet_bary, SavesMosh
  <2>2. Moshed(s, r, {"earth", b}) /\ HasMosh(r.s, "earth", t)
    BY <2>1, MoshplanSaves
  <2>3. g.eph = "MOS"
    BY <1>2, EffectiveFacts
  <2> QED
    BY <2>2, <2>3, ByMoshier DEF Moshed, HasMosh, HasTheory
<1>3. CASE f.eph = "SWI"
  <2>1. PICK w : w = Saves(s, t, b, f)
    OBVIOUS
  <2>2. /\ Looked(s, w, t, Major)
        /\ w.rc = "OK" => HasDay(w.s, b, t)
    BY <1>3, <2>1, SweplanSaves
  <2>3. CASE w.rc = "OK"
    <3>1. r = w
      BY <1>0, <1>3, <2>1, <2>3 DEF BarySaves, main_planet_bary, Saves, Then
    <3>2. g.eph = "SWI"
      BY <1>3, <2>2, <2>3, EffectiveFacts DEF Looked
    <3> QED
      BY <1>0, <1>3, <2>2, <2>3, <3>1, <3>2, ByFiles DEF Looked, HasDay, HasTheory
  <2>4. CASE w.rc = "NA"
    <3>1. r = SavesMosh(w.s, t, b)
      BY <1>0, <1>3, <2>1, <2>4 DEF BarySaves, main_planet_bary, Saves, SavesMosh, Then
    <3>2. Good(w.s) /\ w.s.oec = t
      BY <2>2 DEF Looked, Did, Keeps
    <3>3. /\ Moshed(w.s, r, {"earth", b}) /\ ByMosh(r.e) /\ r.sun = {}
          /\ HasMosh(r.s, "earth", t) /\ HasMosh(r.s, b, t)
      BY <3>1, <3>2, MoshplanSaves
    <3>4. g.eph = "MOS"
      BY <2>2, <2>4, EffectiveFacts, MosFacts DEF Looked
    <3>5. Did(s, r.s)
      BY <2>2, <3>3, DidTrans DEF Looked, Moshed
    <3> QED
      BY <1>3, <3>3, <3>4, <3>5, ByMoshier DEF Moshed, HasMosh, HasTheory
  <2> QED
    BY <2>2, <2>3, <2>4 DEF Looked
<1> QED
  BY <1>1, <1>2, <1>3

\* The fictitious body
LEMMA AppOsc ==
  ASSUME NEW s, Good(s), NEW f \in Flags, s.oec \in Dates,
         s.pl["fict"].teval \in Dates, By(s.pl["fict"].x, f.eph), HasTheory(s, "earth", f),
         NEW r, r = app_pos_etc_plan_osc(s, f)
  PROVE  /\ Shown(s, r.s, "fict", f) /\ r.rc = "OK" /\ r = Result(r.s, r.rc, r.x)
         /\ r.s.fid["seas"] = s.fid["seas"] /\ (f.eph = "MOS" => r.s.fid = s.fid)
<1>0. PICK b \in Slots : b = "fict"
  BY DEF Slots, Bodies
<1>1. b \notin Major /\ "earth" \in Slots /\ "earth" \in Major /\ f.eph \in {"MOS", "SWI"}
  BY <1>0 DEF Major, Slots, Bodies, Flags
<1>2. /\ LT(s.pl[b].teval) \in AllDates /\ (f.eph = "SWI" => OnFiles(s))
      /\ s.pl[b].x \in SUBSET Evals /\ By(s.pl[b].x, f.eph)
  BY <1>0, <1>1, DateFacts, ByTheory, TypedX
<1>3. Effective(s, f) = f
  BY <1>1, <1>2, EffectiveFacts DEF OnFiles
<1>4. PICK l : l = IF f.speed THEN BaryLooks(s, LT(s.pl[b].teval), f)
                   ELSE Parts(Result(s, "OK", {}), {}, {})
  OBVIOUS
<1>5. /\ Did(s, l.s) /\ SameSlots(s, l.s, Slots) /\ (f.eph = "MOS" => l.s.fid = s.fid)
      /\ l.rc = "OK" /\ By(l.x \cup l.sun, f.eph) /\ l.x \cup l.sun \in SUBSET Evals
  <2>1. CASE f.speed
    <3>1. l = BaryLooks(s, LT(s.pl[b].teval), f)
      BY <1>4, <2>1
    <3>2. PICK t \in AllDates : t = LT(s.pl[b].teval)
      BY <1>2
    <3>3. /\ Did(s, l.s) /\ SameSlots(s, l.s, Slots) /\ l.rc = "OK"
          /\ f.eph = "MOS" => l.s.fid = s.fid
          /\ By(l.x, f.eph) /\ By(l.sun, f.eph)
          /\ l.x \in SUBSET Evals /\ l.sun \in SUBSET Evals
      BY <1>2, <1>3, <3>1, <3>2, BaryLooksIs DEF OnFiles
    <3> QED
      BY <3>3 DEF By
  <2>2. CASE ~f.speed
    <3>1. l = Parts(Result(s, "OK", {}), {}, {})
      BY <1>4, <2>2
    <3>2. l.s = s /\ l.rc = "OK" /\ l.x = {} /\ l.sun = {}
      BY <3>1 DEF Parts, Result
    <3> QED
      BY <3>2, DidSame, SameRefl DEF By
  <2> QED
    BY <2>1, <2>2
<1>6. Good(l.s) /\ HasTheory(l.s, "earth", f)
  BY <1>1, <1>5 DEF Did, SameSlots, SameSlot, HasTheory
<1>7. /\ By(l.s.pl["earth"].x, f.eph) /\ l.s.pl["earth"].x \in SUBSET Evals
      /\ By(deflecting(l.s), f.eph) /\ deflecting(l.s) \in SUBSET Evals
  BY <1>1, <1>6, ByTheory, Deflecting DEF HasTheory
<1>8. PICK o \in SUBSET Evals : o = l.s.pl["earth"].x \cup deflecting(l.s) /\ By(o, f.eph)
  BY <1>7, ByBoth
<1>9. PICK pos : pos = PosOf(s.pl[b].x, o, l.x \cup l.sun)
  OBVIOUS
<1>10. pos \in PosType /\ Pure(pos, f.eph)
  BY <1>2, <1>5, <1>8, <1>9, Made
<1>11. r = app_pos_rest(l.s, b, f, pos)
  <2>1. pos = [NoPos EXCEPT !.true = s.pl[b].x, !.app = l.x \cup l.sun, !.obs = o]
    BY <1>9 DEF PosOf, NoPos
  <2> QED
    BY <1>0, <1>4, <1>5, <1>8, <2>1 DEF app_pos_etc_plan_osc, Then, BaryLooks
<1>12. Shown(l.s, r.s, b, f) /\ r.s.fid = l.s.fid /\ r.rc = "OK" /\ r = Result(r.s, r.rc, r.x)
  BY <1>1, <1>6, <1>10, <1>11, Rest
<1>13. Shown(s, r.s, b, f)
  <2>1. SameSlots(s, l.s, Slots) /\ Keeps(s, l.s)
    BY <1>5 DEF Did
  <2>2. /\ Good(r.s) /\ Keeps(l.s, r.s) /\ SameSlots(l.s, r.s, Slots \ {b})
        /\ r.s.pl[b].teval = l.s.pl[b].teval /\ r.s.pl[b].x = l.s.pl[b].x
        /\ r.s.pl[b].xflgs = f /\ r.s.pl[b].iephe = f.eph
    BY <1>12 DEF Shown
  <2>3. Keeps(s, r.s)
    BY <2>1, <2>2 DEF Keeps
  <2>4. SameSlots(s, l.s, Slots \ {b})
    BY <2>1 DEF SameSlots
  <2>5. SameSlots(s, r.s, Slots \ {b})
    BY <2>2, <2>4, SameTrans
  <2>6. SameSlot(s.pl[b], l.s.pl[b])
    BY <1>0, <2>1 DEF SameSlots, Slots, Bodies
  <2> QED
    BY <2>2, <2>3, <2>5, <2>6 DEF Shown, SameSlot
<1> QED
  BY <1>0, <1>5, <1>12, <1>13 DEF Did

\* The earth or a planet, by one theory
LEMMA AppEtc ==
  ASSUME NEW s, Good(s), NEW f \in Flags, NEW b \in Major \ {"sunbary"}, s.oec \in Dates,
         HasTheory(s, b, f), HasTheory(s, "earth", f),
         NEW r, r = app_pos_etc(s, b, f)
  PROVE  /\ Shown(s, r.s, b, f) /\ r.rc = "OK" /\ r = Result(r.s, r.rc, r.x)
         /\ r.s.fid["seas"] = s.fid["seas"] /\ (f.eph = "MOS" => r.s.fid = s.fid)
<1>1. CASE b = "earth"
  <2>1. r = app_pos_etc_sun(s, f)
    BY <1>1 DEF app_pos_etc
  <2> QED
    BY <1>1, <2>1, AppSun
<1>2. CASE b # "earth"
  <2>1. r = app_pos_etc_plan(s, b, f)
    BY <1>2 DEF app_pos_etc
  <2> QED
    BY <2>1, AppPlan
<1> QED
  BY <1>1, <1>2

\* What is left in the slots: the body b and the earth, with the flags g
Left(s, r, b, g) ==
  /\ Did(s, r) /\ r.pl[b].xflgs = g
  /\ HasTheory(r, b, g) /\ HasTheory(r, "earth", g)

LEMMA ShownLeft ==
  ASSUME NEW s, NEW q, Did(s, q), NEW b \in Slots, NEW f \in Flags, HasTheory(q, b, f),
         HasTheory(q, "earth", f), NEW r, Shown(q, r, b, f), r.fid["seas"] = q.fid["seas"]
  PROVE  Left(s, r, b, f)
<1>1. Did(q, r)
  BY DEF Shown, Did
<1>2. HasTheory(r, b, f)
  BY DEF Shown, HasTheory
<1>3. HasTheory(r, "earth", f)
  <2>1. CASE b = "earth"
    BY <1>2, <2>1
  <2>2. CASE b # "earth"
    BY <2>2 DEF Shown, SameSlots, SameSlot, HasTheory, Slots, Bodies
  <2> QED
    BY <2>1, <2>2
<1> QED
  BY <1>1, <1>2, <1>3, DidTrans DEF Left, Shown

MainMosh(s, t, b, f) ==
  Then(app_pos_etc(swi_moshplan(s, t, b, TRUE).s, b, Mos(f)), LAMBDA n :
  Result(n.s, IF n.rc = "ERR" THEN "ERR" ELSE "OK", {}))

LEMMA MainMoshIs ==
  ASSUME NEW s, Good(s), NEW b \in Major \ {"sunbary"}, NEW t \in Dates, s.oec = t,
         NEW f \in Flags, NEW r, r = MainMosh(s, t, b, f)
  PROVE  /\ Left(s, r.s, b, Mos(f)) /\ r.rc = "OK" /\ r = Result(r.s, r.rc, r.x)
         /\ r.s.fid = s.fid
<1>0. b \in Slots /\ Mos(f) \in Flags /\ Mos(f).eph = "MOS"
  BY MosFacts DEF Major, Slots, Bodies
<1>1. PICK m : m = SavesMosh(s, t, b)
  OBVIOUS
<1>2. /\ Moshed(s, m, {"earth", b}) /\ ByMosh(m.e) /\ m.sun = {}
      /\ HasMosh(m.s, "earth", t) /\ HasMosh(m.s, b, t)
  BY <1>1, MoshplanSaves
<1>3. PICK g \in Flags : g = Mos(f)
  BY <1>0
<1>4. /\ Good(m.s) /\ m.s.oec \in Dates /\ HasTheory(m.s, b, g) /\ HasTheory(m.s, "earth", g)
      /\ m.s.fid = s.fid /\ Did(s, m.s)
  BY <1>0, <1>2, <1>3 DEF Moshed, Did, Keeps, HasMosh, HasTheory
<1>5. PICK n : n = app_pos_etc(m.s, b, g)
  OBVIOUS
<1>6. /\ Shown(m.s, n.s, b, g) /\ n.rc = "OK" /\ n = Result(n.s, n.rc, n.x)
      /\ n.s.fid["seas"] = m.s.fid["seas"] /\ (g.eph = "MOS" => n.s.fid = m.s.fid)
  BY <1>4, <1>5, AppEtc
<1>7. r = Result(n.s, "OK", {})
  BY <1>1, <1>3, <1>5, <1>6 DEF MainMosh, Then, SavesMosh
<1>8. r.s = n.s /\ r.rc = "OK" /\ r = Result(r.s, r.rc, r.x)
  BY <1>7 DEF Result
<1>9. Left(s, n.s, b, g)
  BY <1>0, <1>4, <1>6, ShownLeft
<1> QED
  BY <1>0, <1>3, <1>4, <1>6, <1>8, <1>9

LEMMA MainPlanet ==
  ASSUME NEW s, Good(s), NEW b \in Major \ {"sunbary"}, NEW t \in Dates, s.oec = t,
         NEW f \in Flags, f.eph = "SWI" => s.lasteph = "SWI",
         NEW g, g = Effective(s, f), NEW r, r = main_planet(s, t, b, f)
  PROVE  /\ Left(s, r.s, b, g) /\ r.rc = "OK" /\ r = Result(r.s, r.rc, r.x)
         /\ f.eph = "MOS" => r.s.fid = s.fid
<1>0. b \in Slots /\ f.eph \in {"MOS", "SWI"}
  BY DEF Major, Slots, Bodies, Flags
<1>1. CASE f.eph = "MOS"
  <2>1. r = MainMosh(s, t, b, f)
    BY <1>1 DEF main_planet, MainMosh
  <2>2. g = Mos(f)
    BY <1>1, EffectiveFacts
  <2>3. /\ Left(s, r.s, b, Mos(f)) /\ r.rc = "OK" /\ r = Result(r.s, r.rc, r.x)
        /\ r.s.fid = s.fid
    BY <2>1, MainMoshIs
  <2> QED
    BY <2>2, <2>3
<1>2. CASE f.eph = "SWI"
  <2>1. PICK w : w = Saves(s, t, b, f)
    OBVIOUS
  <2>2. /\ Looked(s, w, t, Major)
        /\ w = Parts(Result(w.s, w.rc, w.x), w.e, w.sun)
        /\ w.rc = "OK" => /\ FromFiles(w.e, t) /\ FromFiles(w.sun, t)
                          /\ HasDay(w.s, "earth", t) /\ HasDay(w.s, b, t)
    BY <1>2, <2>1, SweplanSaves
  <2>3. Good(w.s) /\ w.s.oec = t /\ Did(s, w.s)
    BY <2>2 DEF Looked, Did, Keeps
  <2>4. CASE w.rc = "OK"
    <3>1. g = f
      BY <1>2, <2>2, <2>4, EffectiveFacts DEF Looked
    <3>2. HasTheory(w.s, b, f) /\ HasTheory(w.s, "earth", f)
      BY <1>2, <2>2, <2>4 DEF HasDay, HasTheory
    <3>3. PICK n : n = app_pos_etc(w.s, b, f)
      OBVIOUS
    <3>4. /\ Shown(w.s, n.s, b, f) /\ n.rc = "OK" /\ n = Result(n.s, n.rc, n.x)
          /\ n.s.fid["seas"] = w.s.fid["seas"] /\ (f.eph = "MOS" => n.s.fid = w.s.fid)
      BY <2>3, <3>2, <3>3, AppEtc
    <3>5. r = Result(n.s, "OK", {})
      BY <1>2, <2>1, <2>4, <3>3, <3>4 DEF main_planet, Then, Saves
    <3>6. r.s = n.s /\ r.rc = "OK" /\ r = Result(r.s, r.rc, r.x)
      BY <3>5 DEF Result
    <3>7. Left(s, n.s, b, f)
      BY <1>0, <2>3, <3>2, <3>4, ShownLeft
    <3> QED
      BY <1>2, <3>1, <3>6, <3>7
  <2>5. CASE w.rc = "NA"
    <3>1. g = Mos(f)
      BY <2>2, <2>5, EffectiveFacts DEF Looked
    <3>2. r = MainMosh(w.s, t, b, f)
      BY <1>2, <2>1, <2>5 DEF main_planet, MainMosh, Then, Saves
    <3>3. /\ Left(w.s, r.s, b, Mos(f)) /\ r.rc = "OK" /\ r = Result(r.s, r.rc, r.x)
          /\ r.s.fid = w.s.fid
      BY <2>3, <3>2, MainMoshIs
    <3>4. Did(s, r.s)
      BY <2>3, <3>3, DidTrans DEF Left
    <3> QED
      BY <1>2, <3>1, <3>3, <3>4 DEF Left
  <2> QED
    BY <2>2, <2>4, <2>5 DEF Looked
<1> QED
  BY <1>0, <1>1, <1>2

-----------------------------------------------------------------------------
(* Bodies: each call answers with a position by the theory its flags name.  *)

Answered(s, r) ==
  /\ Good(r.s) /\ Keeps(s, r.s)
  /\ r.rc \in {"OK", "ERR", "NA"} /\ r.f \in AnyFlags /\ r.x \in PosType
  /\ r = Outcome(r.s, r.rc, r.f, r.x)
  /\ r.rc = "OK" => r.f \in Flags
  /\ r.f \in Flags => Pure(r.x, r.f.eph)

LEMMA NoPosFacts == NoPos \in PosType /\ \A eph : Pure(NoPos, eph)
BY DEF NoPos, PosType, Pure, By, Day

LEMMA ReturnError ==
  ASSUME NEW s, NEW q, Good(q), Keeps(s, q), NEW r, r = return_error(q)
  PROVE  Answered(s, r) /\ r.s = q /\ r.rc = "ERR"
<1>1. /\ r.s = q /\ r.rc = "ERR" /\ r.f = Renew /\ r.x = NoPos
      /\ r = Outcome(r.s, r.rc, r.f, r.x)
  BY DEF return_error, Outcome
<1> QED
  BY <1>1, NotFlags, NoPosFacts DEF Answered, AnyFlags

LEMMA GivenIs ==
  ASSUME NEW s, NEW q, Good(q), Keeps(s, q), NEW b \in Slots, NEW f \in Flags, NEW rc,
         rc = "OK" => q.pl[b].xflgs = f, NEW r, r = Given(q, rc, f, b)
  PROVE  Answered(s, r) /\ r.s = q
<1>1. CASE rc = "OK"
  <2>1. r = Outcome(q, "OK", f, q.pl[b].xret)
    BY <1>1 DEF Given
  <2>2. /\ r.s = q /\ r.rc = "OK" /\ r.f = f /\ r.x = q.pl[b].xret
        /\ r = Outcome(r.s, r.rc, r.f, r.x)
    BY <2>1 DEF Outcome
  <2>3. q.pl[b].xret \in PosType
    BY DEF Good, FilesOK, Swed, PlanType
  <2>4. Pure(q.pl[b].xret, f.eph)
    BY <1>1 DEF Good, SlotsOK, FlaggedOK
  <2> QED
    BY <2>2, <2>3, <2>4 DEF Answered, AnyFlags
<1>2. CASE rc # "OK"
  <2>1. r = return_error(q)
    BY <1>2 DEF Given
  <2> QED
    BY <2>1, ReturnError
<1> QED
  BY <1>1, <1>2

\* The flags an answer is given with are those it was computed with.
LEMMA Planet ==
  ASSUME NEW s, Good(s), NEW b \in Major \ {"sunbary"}, NEW t \in Dates, s.oec = t,
         NEW f \in Flags, f.eph = "SWI" => s.lasteph = "SWI", NEW r, r = planet(s, t, b, f)
  PROVE  Answered(s, r)
<1>1. PICK g : g = Effective(s, f)
  OBVIOUS
<1>2. PICK m : m = main_planet(s, t, b, f)
  OBVIOUS
<1>3. /\ Left(s, m.s, b, g) /\ m.rc = "OK" /\ m = Result(m.s, m.rc, m.x)
      /\ f.eph = "MOS" => m.s.fid = s.fid
  BY <1>1, <1>2, MainPlanet
<1>4. g \in Flags /\ b \in Slots
  BY <1>1, EffectiveFacts DEF Major, Slots, Bodies
<1>5. Good(m.s) /\ Keeps(s, m.s) /\ m.s.pl[b].xflgs = g
  BY <1>3 DEF Left, Did
<1>6. PICK rc : rc = m.rc
  OBVIOUS
<1>7. r = Given(m.s, rc, g, b)
  BY <1>2, <1>5, <1>6 DEF planet, Then
<1> QED
  BY <1>4, <1>5, <1>7, GivenIs

\* The moon, by the theory of its flags
MoonAs(s, f) == Then(app_pos_etc_moon(s, f), LAMBDA a : Given(a.s, a.rc, f, "moon"))

LEMMA MoonAsIs ==
  ASSUME NEW s, NEW q, Did(s, q), NEW f \in Flags,
         HasTheory(q, "moon", f), HasTheory(q, "earth", f), NEW r, r = MoonAs(q, f)
  PROVE  /\ Answered(s, r) /\ r.s.fid["seas"] = s.fid["seas"]
         /\ f.eph = "MOS" => r.s.fid = q.fid
<1>0. PICK b \in Slots : b = "moon"
  BY DEF Slots, Bodies
<1>1. PICK a : a = app_pos_etc_moon(q, f)
  OBVIOUS
<1>2. Good(q) /\ Keeps(s, q) /\ q.fid["seas"] = s.fid["seas"]
  BY DEF Did
<1>3. /\ Shown(q, a.s, "moon", f) /\ a.rc = "OK" /\ a = Result(a.s, a.rc, a.x)
      /\ a.s.fid["seas"] = q.fid["seas"] /\ (f.eph = "MOS" => a.s.fid = q.fid)
  BY <1>1, <1>2, AppMoon
<1>4. Good(a.s) /\ Keeps(s, a.s) /\ a.s.pl[b].xflgs = f
  BY <1>0, <1>2, <1>3 DEF Shown, Keeps
<1>5. PICK rc : rc = a.rc
  OBVIOUS
<1>6. r = Given(a.s, rc, f, b)
  BY <1>0, <1>1, <1>5 DEF MoonAs, Then
<1>7. Answered(s, r) /\ r.s = a.s
  BY <1>4, <1>6, GivenIs
<1> QED
  BY <1>2, <1>3, <1>7

MoonMosh(s, t, f) ==
  MoonAs(swi_moshplan(swi_moshmoon(s, t, TRUE).s, t, "earth", TRUE).s, Mos(f))

LEMMA MoonMoshIs ==
  ASSUME NEW s, NEW q, Did(s, q), NEW t \in Dates, s.oec = t, NEW f \in Flags,
         NEW r, r = MoonMosh(q, t, f)
  PROVE  Answered(s, r) /\ r.s.fid["seas"] = s.fid["seas"] /\ r.s.fid = q.fid
<1>0. PICK d \in BOOLEAN : d = TRUE
  OBVIOUS
<1>1. PICK b \in Major \ {"sunbary"} : b = "earth"
  BY DEF Major
<1>2. t \in AllDates /\ Good(q) /\ q.oec = t /\ Mos(f) \in Flags /\ Mos(f).eph = "MOS"
  BY DateFacts, MosFacts DEF Did, Keeps
<1>3. PICK m : m = swi_moshmoon(q, t, d)
  OBVIOUS
<1>4. /\ Moshed(q, m, IF d THEN {"moon"} ELSE {}) /\ m = Result(m.s, m.rc, m.x)
      /\ d => HasMosh(m.s, "moon", t)
  BY <1>2, <1>3, MoshMoon
<1>5. Good(m.s) /\ m.s.oec = t /\ Did(q, m.s) /\ m.s.fid = q.fid
  BY <1>2, <1>4 DEF Moshed, Did, Keeps
<1>6. PICK e : e = SavesMosh(m.s, t, b)
  OBVIOUS
<1>7. /\ Moshed(m.s, e, {"earth", b}) /\ ByMosh(e.e) /\ e.sun = {}
      /\ HasMosh(e.s, "earth", t) /\ HasMosh(e.s, b, t)
  BY <1>5, <1>6, MoshplanSaves
<1>8. HasMosh(e.s, "moon", t)
  BY <1>0, <1>1, <1>4, <1>7 DEF Moshed, SameSlots, SameSlot, HasMosh, Slots, Bodies
<1>9. Did(s, e.s) /\ e.s.fid = q.fid
  BY <1>5, <1>7, DidTrans DEF Moshed
<1>10. PICK g \in Flags : g = Mos(f)
  BY <1>2
<1>11. HasTheory(e.s, "moon", g) /\ HasTheory(e.s, "earth", g)
  BY <1>2, <1>7, <1>8, <1>10 DEF HasMosh, HasTheory
<1>12. r = MoonAs(e.s, g)
  BY <1>0, <1>1, <1>3, <1>6, <1>10 DEF MoonMosh, SavesMosh
<1>13. /\ Answered(s, r) /\ r.s.fid["seas"] = s.fid["seas"]
       /\ g.eph = "MOS" => r.s.fid = e.s.fid
  BY <1>9, <1>11, <1>12, MoonAsIs
<1> QED
  BY <1>2, <1>9, <1>10, <1>13

LEMMA Moon ==
  ASSUME NEW s, Good(s), NEW t \in Dates, s.oec = t, NEW f \in Flags,
         f.eph = "SWI" => s.lasteph = "SWI", NEW r, r = moon(s, t, f)
  PROVE  /\ Answered(s, r) /\ r.s.fid["seas"] = s.fid["seas"]
         /\ f.eph = "MOS" => r.s.fid = s.fid
<1>0. PICK b \in Major \ {"sunbary"} : b = "moon"
  BY DEF Major
<1>1. f.eph \in {"MOS", "SWI"}
  BY DEF Flags
<1>2. CASE f.eph = "MOS"
  <2>1. r = MoonMosh(s, t, f)
    BY <1>2 DEF moon, MoonMosh, MoonAs
  <2>2. Did(s, s)
    BY DidSame
  <2> QED
    BY <2>1, <2>2, MoonMoshIs
<1>3. CASE f.eph = "SWI"
  <2>1. PICK w : w = Saves(s, t, b, f)
    OBVIOUS
  <2>2. /\ Looked(s, w, t, Major)
        /\ w = Parts(Result(w.s, w.rc, w.x), w.e, w.sun)
        /\ w.rc = "OK" => /\ FromFiles(w.e, t) /\ FromFiles(w.sun, t)
                          /\ HasDay(w.s, "earth", t) /\ HasDay(w.s, b, t)
    BY <1>3, <2>1, SweplanSaves
  <2>3. Did(s, w.s)
    BY <2>2 DEF Looked
  <2>4. CASE w.rc = "OK"
    <3>1. HasTheory(w.s, "moon", f) /\ HasTheory(w.s, "earth", f)
      BY <1>0, <1>3, <2>2, <2>4 DEF HasDay, HasTheory
    <3>2. r = MoonAs(w.s, f)
      BY <1>0, <1>3, <2>1, <2>4 DEF moon, MoonAs, Then, Saves
    <3>3. /\ Answered(s, r) /\ r.s.fid["seas"] = s.fid["seas"]
          /\ f.eph = "MOS" => r.s.fid = w.s.fid
      BY <2>3, <3>1, <3>2, MoonAsIs
    <3> QED
      BY <1>3, <3>3
  <2>5. CASE w.rc = "NA"
    <3>1. r = MoonMosh(w.s, t, f)
      BY <1>0, <1>3, <2>1, <2>5 DEF moon, MoonMosh, MoonAs, Then, Saves
    <3>2. Answered(s, r) /\ r.s.fid["seas"] = s.fid["seas"] /\ r.s.fid = w.s.fid
      BY <2>3, <3>1, MoonMoshIs
    <3> QED
      BY <1>3, <3>2
  <2> QED
    BY <2>2, <2>4, <2>5 DEF Looked
<1> QED
  BY <1>1, <1>2, <1>3

\* The mean node is by no theory.
LEMMA MeanNode ==
  ASSUME NEW s, Good(s), NEW t \in Dates, NEW f \in Flags, NEW r, r = mean_node(s, t, f)
  PROVE  Answered(s, r)
<1>0. PICK b \in Slots : b = "mean"
  BY DEF Slots, Bodies
<1>1. b \notin Major /\ b # "sunbary" /\ FilesOK(s)
  BY <1>0 DEF Major, Good
<1>2. PICK x : x = {Eval("mean", "none", t, NoSeg), Eval("mean", "none", LT(t), NoSeg)}
  OBVIOUS
<1>3. x \in SUBSET Evals /\ \A e \in x : e.src = "none"
  <2>1. t \in AllDates /\ LT(t) \in AllDates /\ NoSeg \in SegType
    BY DateFacts DEF NoSeg, SegType
  <2> QED
    BY <1>2, <2>1 DEF Eval, Evals, Names, Sources
<1>4. PICK o \in PlanType : o = s.pl[b]
  BY <1>1 DEF FilesOK, Swed
<1>5. PICK p : p = [o EXCEPT !.x = x, !.teval = t, !.xflgs = Renew]
  OBVIOUS
<1>6. /\ p \in PlanType /\ p.era = o.era /\ p.x = x /\ p.xflgs = Renew
  BY <1>3, <1>4, <1>5 DEF PlanType, AnyFlags, Day
<1>7. PICK s1 : s1 = Put(s, b, p)
  OBVIOUS
<1>8. /\ FilesOK(s1) /\ Keeps(s, s1) /\ s1.fid = s.fid
      /\ s1.pl[b] = p /\ \A c \in Slots \ {b} : s1.pl[c] = s.pl[c]
  BY <1>1, <1>4, <1>6, <1>7, PutSlot
<1>9. Good(s1)
  <2>1. SlotOK(s, b, s1.pl[b])
    BY <1>1, <1>6, <1>8, NotFlags DEF SlotOK, FlaggedOK
  <2> QED
    BY <1>8, <2>1, GoodPut
<1>10. PICK a : a = app_pos_etc_mean(s1, f)
  OBVIOUS
<1>11. Shown(s1, a.s, b, f)
  <2>1. CASE Same(s1, b, f)
    <3>1. a = again(s1, b, f)
      BY <1>0, <1>10, <2>1 DEF app_pos_etc_mean
    <3>2. Shown(s1, a.s, b, f) /\ a.s.fid = s1.fid /\ a.rc = "OK" /\ a = Result(a.s, a.rc, a.x)
      BY <1>9, <2>1, <3>1, Again
    <3> QED
      BY <3>2
  <2>2. CASE ~Same(s1, b, f)
    <3>0. PICK e \in SUBSET Evals : e = {}
      OBVIOUS
    <3>1. PICK pos : pos = PosOf(x, e, e)
      OBVIOUS
    <3>2. pos \in PosType /\ Pure(pos, f.eph)
      <4>1. By(x, f.eph) /\ By(e, f.eph)
        BY <1>3, <3>0 DEF By
      <4> QED
        BY <1>3, <3>1, <4>1, Made
    <3>3. a = app_pos_rest(s1, b, f, pos)
      <4>0. s1.pl[b].x = x
        BY <1>6, <1>8
      <4>a. PICK n : n = [NoPos EXCEPT !.true = x]
        OBVIOUS
      <4>b. n = [true |-> x, obs |-> {}, app |-> {}, spd |-> FALSE,
                 oec |-> 0, nut |-> 0, nutv |-> 0]
        BY <4>a DEF NoPos
      <4>c. pos = [true |-> x, obs |-> e, app |-> e, spd |-> FALSE,
                   oec |-> 0, nut |-> 0, nutv |-> 0]
        BY <3>1 DEF PosOf, NoPos
      <4>1. pos = [NoPos EXCEPT !.true = s1.pl[b].x]
        BY <3>0, <4>0, <4>a, <4>b, <4>c
      <4> QED
        BY <1>0, <1>10, <2>2, <4>1 DEF app_pos_etc_mean
    <3>4. Shown(s1, a.s, b, f) /\ a.s.fid = s1.fid /\ a.rc = "OK" /\ a = Result(a.s, a.rc, a.x)
      BY <1>1, <1>9, <3>2, <3>3, Rest
    <3> QED
      BY <3>4
  <2> QED
    BY <2>1, <2>2
<1>12. Good(a.s) /\ Keeps(s, a.s) /\ a.s.pl[b].xflgs = f
  BY <1>8, <1>11 DEF Shown, Keeps
<1>13. PICK rc : rc = "OK"
  OBVIOUS
<1>14. r = Given(a.s, rc, f, b)
  <2>1. s1 = [s EXCEPT !.pl[b].x = x, !.pl[b].teval = t, !.pl[b].xflgs = Renew]
    BY <1>4, <1>5, <1>7 DEF Put
  <2> QED
    BY <1>0, <1>2, <1>10, <1>13, <2>1 DEF mean_node, Then
<1> QED
  BY <1>12, <1>14, GivenIs

\* swemoon looks: the moon by the files, where there are files.
LEMMA Swemoon ==
  ASSUME NEW s, Good(s), NEW t \in AllDates, NEW f, s.lasteph = "SWI",
         NEW r, r = swemoon(s, t, f)
  PROVE  Looked(s, r, t, {})
<1>1. PICK d \in BOOLEAN : d = FALSE
  OBVIOUS
<1>2. PICK b \in Major : b = "moon"
  BY DEF Major
<1>3. r = saved_or(s, t, b, f, d) /\ MaySave(s, t, d)
  BY <1>1, <1>2 DEF swemoon, MaySave
<1>4. Looked(s, r, t, IF d THEN {b} ELSE {})
  BY <1>3, SavedOr
<1> QED
  BY <1>1, <1>4

LooksMoon(s, t) == swi_moshmoon(s, t, FALSE)
MoonsMosh(s, t, f) == Outcome(s, "OK", Mos(f), LooksMoon(s, t).x)

LEMMA LooksMoonIs ==
  ASSUME NEW s, Good(s), NEW t \in AllDates, NEW r, r = LooksMoon(s, t)
  PROVE  ByMosh(r.x)
<1>1. PICK d \in BOOLEAN : d = FALSE
  OBVIOUS
<1>2. r = swi_moshmoon(s, t, d) /\ (d => t \in Dates)
  BY <1>1 DEF LooksMoon
<1>3. Moshed(s, r, IF d THEN {"moon"} ELSE {})
  BY <1>2, MoshMoon
<1> QED
  BY <1>3 DEF Moshed

\* The moons an osculating element is made from, of one theory
Moons(s, r) ==
  /\ Good(r.s) /\ Keeps(s, r.s) /\ r.rc = "OK" /\ r.f \in Flags
  /\ r.x \in SUBSET Evals /\ By(r.x, r.f.eph)

LEMMA MoonsMoshIs ==
  ASSUME NEW s, NEW q, Good(q), Keeps(s, q), NEW t \in AllDates, NEW f \in Flags,
         NEW r, r = MoonsMosh(q, t, f)
  PROVE  Moons(s, r)
<1>1. PICK m : m = LooksMoon(q, t)
  OBVIOUS
<1>2. ByMosh(m.x)
  BY <1>1, LooksMoonIs
<1>3. By(m.x, "MOS") /\ m.x \in SUBSET Evals
  BY <1>2, ByMoshier
<1>4. r.s = q /\ r.rc = "OK" /\ r.f = Mos(f) /\ r.x = m.x
  BY <1>1 DEF MoonsMosh, Outcome
<1>5. Mos(f) \in Flags /\ Mos(f).eph = "MOS"
  BY MosFacts
<1> QED
  BY <1>3, <1>4, <1>5 DEF Moons

\* three_positions takes all moons by one theory.
LEMMA ThreePositions ==
  ASSUME NEW s, Good(s), NEW t \in Dates, NEW f \in Flags,
         f.eph = "SWI" => s.lasteph = "SWI", NEW r, r = three_positions(s, t, f)
  PROVE  Moons(s, r)
<1>0. t \in AllDates /\ LT(t) \in AllDates /\ Keeps(s, s)
  BY DateFacts DEF Keeps
<1>1. CASE f.eph = "MOS"
  <2>1. r = MoonsMosh(s, t, f)
    BY <1>1 DEF three_positions, MoonsMosh, LooksMoon
  <2> QED
    BY <1>0, <2>1, MoonsMoshIs
<1>2. CASE f.eph # "MOS"
  <2>0. f.eph = "SWI"
    BY <1>2 DEF Flags
  <2>1. PICK m : m = swemoon(s, t, f)
    OBVIOUS
  <2>2. Looked(s, m, t, {})
    BY <1>0, <2>0, <2>1, Swemoon
  <2>3. Good(m.s) /\ Keeps(s, m.s) /\ m.s.lasteph = "SWI"
    BY <2>0, <2>2 DEF Looked, Did, Keeps
  <2>4. CASE m.rc = "OK"
    <3>1. PICK l : l = swemoon(m.s, LT(t), f)
      OBVIOUS
    <3>2. Looked(m.s, l, LT(t), {})
      BY <1>0, <2>3, <3>1, Swemoon
    <3>3. Exists(m.s, "sepl")
      BY <2>2, <2>3, <2>4 DEF Looked, Keeps, Exists, Covered
    <3>4. l.rc = "OK" /\ FromFiles(l.x, LT(t)) /\ FromFiles(m.x, t)
      BY <2>2, <2>4, <3>2, <3>3 DEF Looked
    <3>5. Good(l.s) /\ Keeps(s, l.s)
      BY <2>3, <3>2 DEF Looked, Did, Keeps
    <3>6. r = Outcome(l.s, "OK", f, l.x \cup m.x)
      BY <1>2, <2>1, <2>4, <3>1, <3>4 DEF three_positions, Then
    <3>7. /\ By(l.x, "SWI") /\ l.x \in SUBSET Evals
          /\ By(m.x, "SWI") /\ m.x \in SUBSET Evals
      BY <3>4, ByFiles
    <3>8. By(l.x \cup m.x, "SWI")
      BY <3>7, ByBoth
    <3> QED
      BY <2>0, <3>5, <3>6, <3>7, <3>8 DEF Outcome, Moons
  <2>5. CASE m.rc = "NA"
    <3>1. r = MoonsMosh(m.s, t, f)
      BY <1>2, <2>1, <2>5 DEF three_positions, Then, MoonsMosh, LooksMoon
    <3> QED
      BY <1>0, <2>3, <3>1, MoonsMoshIs
  <2> QED
    BY <2>2, <2>4, <2>5 DEF Looked
<1> QED
  BY <1>1, <1>2

\* One of the two osculating elements
ElemOf(m, t, xret, n) ==
  [m.s.pl[n] EXCEPT !.x = m.x, !.teval = t, !.xret = xret, !.xflgs = m.f, !.iephe = m.f.eph]

LEMMA PutElem ==
  ASSUME NEW s, Good(s), NEW b \in Slots \ Major, NEW p \in PlanType, p.era = s.pl[b].era,
         FlaggedOK(p), NEW r, r = Put(s, b, p)
  PROVE  /\ Good(r) /\ Keeps(s, r) /\ r.pl[b] = p
         /\ \A c \in Slots \ {b} : r.pl[c] = s.pl[c]
<1>1. FilesOK(s)
  BY DEF Good
<1>2. /\ FilesOK(r) /\ Keeps(s, r) /\ r.fid = s.fid
      /\ r.pl[b] = p /\ \A c \in Slots \ {b} : r.pl[c] = s.pl[c]
  BY <1>1, PutSlot
<1>3. SlotOK(s, b, r.pl[b])
  BY <1>2 DEF SlotOK, Major
<1> QED
  BY <1>2, <1>3, GoodPut

LEMMA ElemIs ==
  ASSUME NEW s, NEW m, Moons(s, m), NEW t \in Dates, NEW x \in PosType, Pure(x, m.f.eph),
         NEW n \in Slots, NEW p, p = ElemOf(m, t, x, n)
  PROVE  p \in PlanType /\ p.era = m.s.pl[n].era /\ FlaggedOK(p) /\ p.xflgs = m.f
<1>1. PICK o \in PlanType : o = m.s.pl[n]
  BY DEF Moons, Good, FilesOK, Swed
<1>2. p = [o EXCEPT !.x = m.x, !.teval = t, !.xret = x, !.xflgs = m.f, !.iephe = m.f.eph]
  BY <1>1 DEF ElemOf
<1>3. m.x \in SUBSET Evals /\ m.f \in AnyFlags /\ m.f.eph \in {"MOS", "SWI"} /\ t \in Day
  BY DEF Moons, AnyFlags, Flags, Day
<1>4. /\ p \in PlanType /\ p.era = o.era /\ p.xret = x /\ p.xflgs = m.f
  BY <1>2, <1>3 DEF PlanType
<1> QED
  BY <1>1, <1>4 DEF FlaggedOK

\* Node and apogee are stored together.
LEMMA Osculating ==
  ASSUME NEW s, NEW m, Moons(s, m), NEW t \in Dates, NEW speed \in BOOLEAN,
         NEW r, r = osculating(m, t, speed)
  PROVE  /\ Good(r) /\ Keeps(s, r)
         /\ r.pl["node"].xflgs = m.f /\ r.pl["apog"].xflgs = m.f
<1>1. PICK x : x = swi_plan_for_osc_elem(m.s, [NoPos EXCEPT !.true = m.x, !.spd = speed])
  OBVIOUS
<1>2. Good(m.s) /\ Keeps(s, m.s) /\ m.x \in SUBSET Evals /\ By(m.x, m.f.eph)
  BY DEF Moons
<1>3. x \in PosType /\ Pure(x, m.f.eph)
  <2>1. x = [NoPos EXCEPT !.true = m.x, !.spd = speed, !.oec = m.s.oec, !.nut = m.s.nut]
    BY <1>1 DEF swi_plan_for_osc_elem, NoPos
  <2>2. m.s.oec \in Day /\ m.s.nut \in Day /\ 0 \in Day
    BY <1>2 DEF Good, FilesOK, Swed, Day
  <2> QED
    BY <1>2, <2>1, <2>2 DEF PosType, NoPos, Pure, By
<1>4. PICK n \in Slots \ Major : n = "node"
  BY DEF Slots, Bodies, Major
<1>5. PICK a \in Slots \ Major : a = "apog"
  BY DEF Slots, Bodies, Major
<1>6. PICK p : p = ElemOf(m, t, x, n)
  OBVIOUS
<1>7. PICK e : e = ElemOf(m, t, x, a)
  OBVIOUS
<1>8. p \in PlanType /\ p.era = m.s.pl[n].era /\ FlaggedOK(p) /\ p.xflgs = m.f
  BY <1>3, <1>6, ElemIs
<1>9. e \in PlanType /\ e.era = m.s.pl[a].era /\ FlaggedOK(e) /\ e.xflgs = m.f
  BY <1>3, <1>7, ElemIs
<1>10. PICK s1 : s1 = Put(m.s, n, p)
  OBVIOUS
<1>11. /\ Good(s1) /\ Keeps(m.s, s1) /\ s1.pl[n] = p
       /\ \A c \in Slots \ {n} : s1.pl[c] = m.s.pl[c]
  BY <1>2, <1>8, <1>10, PutElem
<1>12. PICK s2 : s2 = Put(s1, a, e)
  OBVIOUS
<1>13. /\ Good(s2) /\ Keeps(s1, s2) /\ s2.pl[a] = e
       /\ \A c \in Slots \ {a} : s2.pl[c] = s1.pl[c]
  <2>1. e.era = s1.pl[a].era
    BY <1>4, <1>5, <1>9, <1>11
  <2> QED
    BY <1>9, <1>11, <1>12, <2>1, PutElem
<1>14. r = s2
  <2>1. r = [m.s EXCEPT !.pl[n] = p, !.pl[a] = e]
    BY <1>1, <1>4, <1>5, <1>6, <1>7 DEF osculating, ElemOf
  <2> QED
    BY <1>10, <1>12, <2>1 DEF Put
<1> QED
  BY <1>2, <1>4, <1>5, <1>8, <1>9, <1>11, <1>13, <1>14 DEF Keeps

\* lunar_osc_elem: the date of the moon's slot is put to 0 first.
LEMMA NoMoon ==
  ASSUME NEW s, Good(s), NEW b \in Major \ {"sunbary"}, NEW v \in Day, v = 0,
         NEW r, r = SetTeval(s, b, v)
  PROVE  Good(r) /\ Keeps(s, r)
<1>2. b \in Slots /\ FilesOK(s) /\ 0 \in Day
  BY DEF Major, Slots, Bodies, Good, Day
<1>4. /\ FilesOK(r) /\ Keeps(s, r) /\ r.fid = s.fid
      /\ r.pl[b].teval = v
      /\ SameSlot([s.pl[b] EXCEPT !.teval = v], r.pl[b])
      /\ \A c \in Slots \ {b} : r.pl[c] = s.pl[c]
  BY <1>2, PutTeval
<1>5. PICK o \in PlanType : o = s.pl[b]
  BY <1>2 DEF FilesOK, Swed
<1>6. FlaggedOK(o) /\ TheoryOK(o)
  BY <1>2, <1>5 DEF Good, SlotsOK
<1>7. PICK p \in PlanType : p = r.pl[b]
  BY <1>2, <1>4 DEF FilesOK, Swed
<1>8. p.iephe = o.iephe /\ p.xflgs = o.xflgs /\ p.xret = o.xret /\ p.teval = 0
  BY <1>4, <1>5, <1>7 DEF SameSlot, PlanType
<1>9. SlotOK(s, b, p)
  BY <1>6, <1>8 DEF SlotOK, FlaggedOK, TheoryOK, DatedOK
<1> QED
  BY <1>2, <1>4, <1>7, <1>9, GoodPut

LEMMA LunarOscElem ==
  ASSUME NEW s, Good(s), NEW t \in Dates, NEW f \in Flags, NEW b \in {"node", "apog"},
         f.eph = "SWI" => s.lasteph = "SWI", NEW r, r = lunar_osc_elem(s, t, b, f)
  PROVE  Answered(s, r)
<1>0. b \in Slots /\ f.speed \in BOOLEAN
  BY DEF Slots, Bodies, Flags
<1>1. CASE s.pl[b].teval = t /\ Same(s, b, f)
  <2>1. PICK a : a = again(s, b, f)
    OBVIOUS
  <2>2. Shown(s, a.s, b, f)
    BY <1>0, <1>1, <2>1, Again
  <2>3. PICK rc : rc = "OK"
    OBVIOUS
  <2>4. r = Given(a.s, rc, f, b)
    BY <1>1, <2>1, <2>3 DEF lunar_osc_elem, Then
  <2>5. Good(a.s) /\ Keeps(s, a.s) /\ a.s.pl[b].xflgs = f
    BY <2>2 DEF Shown
  <2> QED
    BY <1>0, <2>4, <2>5, GivenIs
<1>2. CASE ~(s.pl[b].teval = t /\ Same(s, b, f))
  <2>1. PICK q : q = [s EXCEPT !.pl["moon"].teval = 0]
    OBVIOUS
  <2>a. PICK c \in Major \ {"sunbary"} : c = "moon"
    BY DEF Major
  <2>b. PICK v \in Day : v = 0
    BY DEF Day
  <2>c. q = SetTeval(s, c, v)
    BY <2>1, <2>a, <2>b DEF SetTeval
  <2>2. Good(q) /\ Keeps(s, q)
    BY <2>b, <2>c, NoMoon
  <2>3. PICK m : m = three_positions(q, t, f)
    OBVIOUS
  <2>d. f.eph = "SWI" => q.lasteph = "SWI"
    BY <2>2 DEF Keeps
  <2>4. Moons(q, m)
    BY <2>2, <2>3, <2>d, ThreePositions
  <2>5. PICK o : o = osculating(m, t, f.speed)
    OBVIOUS
  <2>6. Good(o) /\ Keeps(q, o) /\ o.pl["node"].xflgs = m.f /\ o.pl["apog"].xflgs = m.f
    BY <1>0, <2>4, <2>5, Osculating
  <2>7. PICK rc : rc = "OK"
    OBVIOUS
  <2>8. m.rc = "OK" /\ m.f \in Flags
    BY <2>4 DEF Moons
  <2>9. r = Given(o, rc, m.f, b)
    BY <1>2, <2>1, <2>3, <2>5, <2>7, <2>8 DEF lunar_osc_elem, Then
  <2>10. o.pl[b].xflgs = m.f /\ Keeps(s, o)
    BY <2>2, <2>6 DEF Keeps
  <2> QED
    BY <1>0, <2>6, <2>8, <2>9, <2>10, GivenIs
<1> QED
  BY <1>1, <1>2

\* Chiron, from the file and the sun that is given with it
SunBy(sun, f) == f.eph = "SWI" => By(sun, f.eph)
IsChiron(b) == b = "chiron"
ChironOf(s, t, b, f, sun, do_save) == sweph(s, t, b, f, sun, do_save)

\* What a call for an asteroid leaves: the file may have been opened or closed
KeptAll(s, r) == Good(r) /\ Keeps(s, r) /\ SameSlots(s, r, Slots)
KeptBut(s, r, b) == Good(r) /\ Keeps(s, r) /\ SameSlots(s, r, Slots \ {b})

LEMMA KeptTrans ==
  ASSUME NEW s, NEW r, NEW q, NEW b, KeptAll(s, r), KeptBut(r, q, b)
  PROVE  KeptBut(s, q, b)
<1>1. Keeps(s, q)
  BY DEF KeptAll, KeptBut, Keeps
<1>2. SameSlots(s, r, Slots \ {b})
  BY DEF KeptAll, SameSlots
<1>3. SameSlots(s, q, Slots \ {b})
  BY <1>2, SameTrans DEF KeptBut
<1> QED
  BY <1>1, <1>3 DEF KeptBut

LEMMA ChironIsKept ==
  ASSUME NEW s, Good(s), NEW r, FileStep(s, r, "seas")
  PROVE  KeptAll(s, r)
BY GoodFrame DEF FileStep, KeptAll

LEMMA StoreChiron ==
  ASSUME NEW s, Good(s), NEW b \in Slots \ Major, NEW t \in Dates, NEW x \in SUBSET Evals,
         NEW i \in {"none", "MOS", "SWI"}, NEW r, r = Store(s, b, t, x, i)
  PROVE  KeptBut(s, r, b) /\ r.pl[b].x = x /\ r.pl[b].teval = t
<1>1. FilesOK(s) /\ t \in Day
  BY DEF Good, Day
<1>2. /\ FilesOK(r) /\ Keeps(s, r) /\ r.fid = s.fid
      /\ r.pl[b] \in PlanType
      /\ r.pl[b].teval = t /\ r.pl[b].x = x /\ r.pl[b].iephe = i
      /\ r.pl[b].xflgs = Renew
      /\ \A c \in Slots \ {b} : r.pl[c] = s.pl[c]
  BY <1>1, PutStore
<1>3. SlotOK(s, b, r.pl[b])
  BY <1>2, NotFlags DEF SlotOK, FlaggedOK, Major
<1>4. Good(r)
  BY <1>2, <1>3, GoodPut
<1> QED
  BY <1>2, <1>4 DEF KeptAll, KeptBut, SameSlots, SameSlot

\* sweph for the asteroid: it is there, with the sun, or the date is not in
\* the file.
LEMMA ChironIs ==
  ASSUME NEW s, Good(s), Asteroids(s), NEW b, IsChiron(b), NEW t \in AllDates, NEW f \in Flags,
         NEW sun \in SUBSET Evals, SunBy(sun, f),
         NEW do_save \in BOOLEAN, do_save => t \in Dates,
         NEW r, r = ChironOf(s, t, b, f, sun, do_save)
  PROVE  /\ (IF do_save THEN KeptBut(s, r.s, b) ELSE KeptAll(s, r.s)) /\ r.rc \in {"OK", "NA"}
         /\ r = Result(r.s, r.rc, r.x)
         /\ r.rc = "OK" => r.x \in SUBSET Evals /\ By(r.x, f.eph)
         /\ do_save /\ r.rc = "OK" => r.s.pl[b].x = r.x /\ r.s.pl[b].teval = t
<1>0. b \in FileBodies /\ FileOf(b) = "seas" /\ b \in Slots \ Major /\ FilesOK(s)
  BY DEF FileBodies, Bodies, FileOf, Slots, Major, Good, IsChiron
<1>1. PICK k : k = FileOf(b)
  OBVIOUS
<1>2. PICK g : g = from_file(s, k, t, b)
  OBVIOUS
<1>3. /\ FileStep(s, g.s, k) /\ g.rc \in {"OK", "NA"} /\ g = Result(g.s, g.rc, g.x)
      /\ g.rc = "OK" => /\ Exists(s, k) /\ FromFiles(g.x, t)
                        /\ \A e \in g.x : e.of = b
      /\ g.rc = "NA" => g.x = {}
      /\ Exists(s, k) /\ b # "chiron" => g.rc = "OK"
  BY <1>0, <1>1, <1>2, FromFile DEF Ready, IsChiron
<1>4. PICK w : w = with_sun(g, t, b, sun, f)
  OBVIOUS
<1>5. PICK y : y = IF f.eph = "SWI" THEN g.x \cup sun ELSE g.x
  OBVIOUS
<1>6. w = Result(g.s, g.rc, y)
  <2>1. w = IF f.eph = "SWI" THEN [g EXCEPT !.x = g.x \cup sun] ELSE g
    BY <1>4 DEF with_sun, IsChiron
  <2>2. g = [s |-> g.s, rc |-> g.rc, x |-> g.x]
    BY <1>3 DEF Result
  <2> QED
    BY <1>5, <2>1, <2>2 DEF Result
<1>7. KeptAll(s, w.s) /\ w.rc = g.rc /\ w.x = y
  BY <1>0, <1>1, <1>3, <1>6, ChironIsKept DEF Result
<1>8. w.rc = "OK" => y \in SUBSET Evals /\ By(y, f.eph)
  <2>1. w.rc = "OK" => g.x \in SUBSET Evals /\ \A e \in g.x : e.of = "chiron"
    BY <1>3, <1>7 DEF FromFiles, OfDate, IsChiron
  <2> QED
    BY <1>5, <2>1 DEF By, SunBy
<1>9. r = IF w.rc = "OK" /\ do_save
          THEN [w EXCEPT !.s = Store(w.s, b, t, w.x, w.s.pl["sunbary"].iephe)]
          ELSE w
  BY <1>0, <1>1, <1>2, <1>4 DEF ChironOf, sweph, Then, IsChiron
<1>10. CASE w.rc = "OK" /\ do_save
  <2>1. PICK i : i = w.s.pl["sunbary"].iephe
    OBVIOUS
  <2>2. i \in {"none", "MOS", "SWI"}
    BY <1>7, <2>1 DEF KeptAll, KeptBut, Good, FilesOK, Swed, PlanType, Slots, Bodies
  <2>3. PICK q : q = Store(w.s, b, t, y, i)
    OBVIOUS
  <2>a. Good(w.s) /\ t \in Dates /\ y \in SUBSET Evals /\ b \in Slots \ Major
    BY <1>0, <1>7, <1>8, <1>10 DEF KeptAll
  <2>4. KeptBut(w.s, q, b) /\ q.pl[b].x = y /\ q.pl[b].teval = t
    BY <2>2, <2>3, <2>a, StoreChiron
  <2>5. r = Result(q, "OK", y)
    BY <1>6, <1>7, <1>9, <1>10, <2>1, <2>3 DEF Result
  <2>6. KeptBut(s, q, b)
    BY <1>7, <2>4, KeptTrans
  <2>7. r.s = q /\ r.rc = "OK" /\ r.x = y /\ r = Result(r.s, r.rc, r.x)
    BY <2>5 DEF Result
  <2> QED
    BY <1>8, <1>10, <2>4, <2>6, <2>7
<1>11. CASE ~(w.rc = "OK" /\ do_save)
  <2>1. r = w
    BY <1>9, <1>11
  <2>2. IF do_save THEN KeptBut(s, w.s, b) ELSE KeptAll(s, w.s)
    BY <1>7 DEF KeptBut, KeptAll, SameSlots
  <2>3. w.rc \in {"OK", "NA"} /\ w = Result(w.s, w.rc, w.x)
    BY <1>3, <1>6, <1>7 DEF Result
  <2> QED
    BY <1>7, <1>8, <1>11, <2>1, <2>2, <2>3
<1> QED
  BY <1>10, <1>11

ChironLooks(s, t, b, f, sun) == sweph(s, t, b, f, sun, FALSE)
ChironSaves(s, t, b, f, sun) == sweph(s, t, b, f, sun, TRUE)

LEMMA ChironLooksIs ==
  ASSUME NEW s, Good(s), Asteroids(s), NEW b, IsChiron(b), NEW t \in AllDates, NEW f \in Flags,
         NEW sun \in SUBSET Evals, SunBy(sun, f),
         NEW r, r = ChironLooks(s, t, b, f, sun)
  PROVE  /\ KeptAll(s, r.s) /\ r.rc \in {"OK", "NA"}
         /\ r = Result(r.s, r.rc, r.x)
         /\ r.rc = "OK" => r.x \in SUBSET Evals /\ By(r.x, f.eph)
<1>1. PICK d \in BOOLEAN : d = FALSE
  OBVIOUS
<1>2. r = ChironOf(s, t, b, f, sun, d) /\ (d => t \in Dates)
  BY <1>1 DEF ChironOf, ChironLooks
<1>3. /\ (IF d THEN KeptBut(s, r.s, b) ELSE KeptAll(s, r.s)) /\ r.rc \in {"OK", "NA"}
      /\ r = Result(r.s, r.rc, r.x)
      /\ r.rc = "OK" => r.x \in SUBSET Evals /\ By(r.x, f.eph)
      /\ d /\ r.rc = "OK" => r.s.pl[b].x = r.x /\ r.s.pl[b].teval = t
  BY <1>2, ChironIs
<1> QED
  BY <1>1, <1>3

LEMMA ChironSavesIs ==
  ASSUME NEW s, Good(s), Asteroids(s), NEW b, IsChiron(b), NEW t \in Dates, NEW f \in Flags,
         NEW sun \in SUBSET Evals, SunBy(sun, f),
         NEW r, r = ChironSaves(s, t, b, f, sun)
  PROVE  /\ KeptBut(s, r.s, b) /\ r.rc \in {"OK", "NA"}
         /\ r = Result(r.s, r.rc, r.x)
         /\ r.rc = "OK" => /\ r.s.pl[b].x \in SUBSET Evals /\ By(r.s.pl[b].x, f.eph)
                           /\ r.s.pl[b].teval = t
<1>1. PICK d \in BOOLEAN : d = TRUE
  OBVIOUS
<1>2. r = ChironOf(s, t, b, f, sun, d) /\ (d => t \in Dates) /\ t \in AllDates
  BY <1>1, DateFacts DEF ChironOf, ChironSaves
<1>3. /\ (IF d THEN KeptBut(s, r.s, b) ELSE KeptAll(s, r.s)) /\ r.rc \in {"OK", "NA"}
      /\ r = Result(r.s, r.rc, r.x)
      /\ r.rc = "OK" => r.x \in SUBSET Evals /\ By(r.x, f.eph)
      /\ d /\ r.rc = "OK" => r.s.pl[b].x = r.x /\ r.s.pl[b].teval = t
  BY <1>2, ChironIs
<1> QED
  BY <1>1, <1>3

\* The asteroid and the earth when the light left: the asteroid may be
\* beyond the end of its file.
LEMMA ChironLight ==
  ASSUME NEW s, Good(s), Asteroids(s), NEW b, IsChiron(b), NEW t \in AllDates, NEW f \in Flags,
         s.oec \in Dates, f.eph = "SWI" => OnFiles(s),
         NEW l, l = at_light_time(s, t, b, f)
  PROVE  /\ KeptAll(s, l.s) /\ l.rc \in {"OK", "NA"}
         /\ l.rc = "OK" => /\ By(l.x, f.eph) /\ By(l.e, f.eph)
                           /\ l.x \in SUBSET Evals /\ l.e \in SUBSET Evals
<1>0. PICK e \in Major \ {"sunbary"} : e = "earth"
  BY DEF Major
<1>1. PICK y \in SUBSET Evals : y = {}
  OBVIOUS
<1>2. \A g : By(y, g) /\ SunBy(y, f)
  BY <1>1 DEF By, SunBy
<1>3. CASE f.eph = "MOS" /\ ~f.speed
  <2>1. l.s = s /\ l.rc = "OK" /\ l.x = y /\ l.e = y
    BY <1>1, <1>3 DEF at_light_time, Parts, Result
  <2>2. KeptAll(s, s)
    BY SameRefl DEF KeptAll, Keeps
  <2> QED
    BY <1>2, <2>1, <2>2
<1>4. CASE f.eph = "SWI"
  <2>1. PICK a : a = Looks(s, t, e, f)
    OBVIOUS
  <2>2. /\ Looked(s, a, t, {}) /\ SameSlots(s, a.s, Slots)
        /\ a.rc = "OK" => FromFiles(a.e, t) /\ FromFiles(a.sun, t)
    BY <1>4, <2>1, SweplanLooks DEF OnFiles
  <2>3. a.rc = "OK" /\ FromFiles(a.x, t)
    BY <1>4, <2>2 DEF Looked, OnFiles
  <2>4. KeptAll(s, a.s)
    BY <2>2 DEF Looked, Did, KeptAll
  <2>5. /\ By(a.sun, "SWI") /\ a.sun \in SUBSET Evals
        /\ By(a.x, "SWI") /\ a.x \in SUBSET Evals
    BY <2>2, <2>3, ByFiles
  <2>6. PICK c : c = ChironLooks(a.s, t, b, f, a.sun)
    OBVIOUS
  <2>7. Good(a.s) /\ Asteroids(a.s) /\ SunBy(a.sun, f)
    BY <1>4, <2>4, <2>5 DEF KeptAll, Keeps, SunBy
  <2>8. /\ KeptAll(a.s, c.s) /\ c.rc \in {"OK", "NA"}
        /\ c = Result(c.s, c.rc, c.x)
        /\ c.rc = "OK" => c.x \in SUBSET Evals /\ By(c.x, f.eph)
    BY <2>5, <2>6, <2>7, ChironLooksIs
  <2>9. l = Parts(c, a.x, a.sun)
    BY <1>0, <1>4, <2>1, <2>3, <2>6 DEF at_light_time, Then, Looks, ChironLooks, IsChiron
  <2>10. l.s = c.s /\ l.rc = c.rc /\ l.x = c.x /\ l.e = a.x
    BY <2>9 DEF Parts
  <2>11. KeptAll(s, c.s)
    BY <2>4, <2>8, SameTrans DEF KeptAll, Keeps
  <2> QED
    BY <1>4, <2>5, <2>8, <2>10, <2>11
<1>5. CASE f.eph = "MOS" /\ f.speed
  <2>1. PICK c : c = ChironLooks(s, t, b, f, y)
    OBVIOUS
  <2>2. /\ KeptAll(s, c.s) /\ c.rc \in {"OK", "NA"}
        /\ c = Result(c.s, c.rc, c.x)
        /\ c.rc = "OK" => c.x \in SUBSET Evals /\ By(c.x, f.eph)
    BY <1>2, <2>1, ChironLooksIs
  <2>3. PICK a : a = LooksMosh(c.s, t, e)
    OBVIOUS
  <2>4. Good(c.s) /\ c.s.oec \in Dates
    BY <2>2 DEF KeptAll, Keeps
  <2>5. Moshed(c.s, a, {}) /\ SameSlots(c.s, a.s, Slots) /\ ByMosh(a.e) /\ a.sun = {}
    BY <2>3, <2>4, MoshplanLooks
  <2>6. a.rc = "OK" /\ ByMosh(a.x) /\ KeptAll(c.s, a.s)
    BY <2>5 DEF Moshed, Did, KeptAll
  <2>7. By(a.x, "MOS") /\ a.x \in SUBSET Evals
    BY <2>6, ByMoshier
  <2>8. CASE c.rc = "OK"
    <3>1. l = Parts([a EXCEPT !.x = c.x], a.x, {})
      BY <1>0, <1>1, <1>5, <2>1, <2>3, <2>8
      DEF at_light_time, Then, LooksMosh, ChironLooks, IsChiron
    <3>2. a = [s |-> a.s, rc |-> a.rc, x |-> a.x, e |-> a.e, sun |-> a.sun]
      BY <2>3 DEF LooksMosh, swi_moshplan, Then, Parts
    <3>3. l.s = a.s /\ l.rc = a.rc /\ l.x = c.x /\ l.e = a.x
      BY <3>1, <3>2 DEF Parts
    <3>4. KeptAll(s, a.s)
      BY <2>2, <2>6, SameTrans DEF KeptAll, Keeps
    <3> QED
      BY <1>5, <2>2, <2>6, <2>7, <2>8, <3>3, <3>4
  <2>9. CASE c.rc # "OK"
    <3>1. l = Parts(c, {}, {})
      BY <1>1, <1>5, <2>1, <2>9 DEF at_light_time, Then, ChironLooks, IsChiron
    <3> QED
      BY <2>2, <2>9, <3>1 DEF Parts
  <2> QED
    BY <2>8, <2>9
<1> QED
  BY <1>3, <1>4, <1>5 DEF Flags

\* The apparent position of the asteroid
LEMMA AppChiron ==
  ASSUME NEW s, Good(s), Asteroids(s), NEW b, IsChiron(b), NEW f \in Flags, s.oec \in Dates,
         s.pl[b].teval \in Dates, By(s.pl[b].x, f.eph), HasTheory(s, "earth", f),
         NEW r, r = app_pos_etc_plan(s, b, f)
  PROVE  /\ Good(r.s) /\ Keeps(s, r.s) /\ r.rc \in {"OK", "NA"}
         /\ r.rc = "OK" => r.s.pl[b].xflgs = f
<1>0. b \in Slots /\ b \notin Major
  BY DEF IsChiron, Slots, Bodies, Major
<1>1. CASE Same(s, b, f)
  <2>1. r = again(s, b, f)
    BY <1>1 DEF app_pos_etc_plan
  <2>2. Shown(s, r.s, b, f) /\ r.s.fid = s.fid /\ r.rc = "OK" /\ r = Result(r.s, r.rc, r.x)
    BY <1>0, <1>1, <2>1, Again
  <2> QED
    BY <2>2 DEF Shown
<1>2. CASE ~Same(s, b, f)
  <2>1. PICK t : t = LT(s.pl[b].teval)
    OBVIOUS
  <2>2. t \in AllDates
    BY <2>1, DateFacts
  <2>3. PICK l : l = at_light_time(s, t, b, f)
    OBVIOUS
  <2>4. PICK e \in Major : e = "earth"
    BY DEF Major
  <2>5. HasTheory(s, e, f)
    BY <2>4
  <2>6. f.eph = "SWI" => OnFiles(s)
    BY <2>5, ByTheory
  <2>7. /\ KeptAll(s, l.s) /\ l.rc \in {"OK", "NA"}
        /\ l.rc = "OK" => /\ By(l.x, f.eph) /\ By(l.e, f.eph)
                          /\ l.x \in SUBSET Evals /\ l.e \in SUBSET Evals
    BY <2>2, <2>3, <2>6, ChironLight
  <2>8. CASE l.rc # "OK"
    <3>1. r = Result(l.s, l.rc, {})
      BY <1>2, <2>1, <2>3, <2>8 DEF app_pos_etc_plan, Then
    <3> QED
      BY <2>7, <2>8, <3>1 DEF Result, KeptAll
  <2>9. CASE l.rc = "OK"
    <3>1. Good(l.s) /\ Keeps(s, l.s) /\ SameSlots(s, l.s, Slots)
      BY <2>7 DEF KeptAll
    <3>2. l.s.pl[b].x = s.pl[b].x /\ l.s.pl[b].x \in SUBSET Evals
      BY <1>0, <3>1, TypedX DEF SameSlots, SameSlot
    <3>3. HasTheory(l.s, e, f) /\ l.s.pl["earth"].iephe = f.eph
      BY <2>4, <2>5, <3>1 DEF SameSlots, SameSlot, HasTheory, Major, Slots, Bodies
    <3>4. By(l.s.pl[e].x, f.eph) /\ l.s.pl[e].x \in SUBSET Evals
      BY <3>1, <3>3, ByTheory
    <3>5. deflecting(l.s) \in SUBSET Evals /\ By(deflecting(l.s), f.eph)
      BY <3>1, <3>3, Deflecting
    <3>6. PICK a : a = l.s.pl[b].x
      OBVIOUS
    <3>7. PICK o : o = l.s.pl[e].x \cup deflecting(l.s)
      OBVIOUS
    <3>8. PICK p : p = l.x \cup l.e
      OBVIOUS
    <3>9. PICK pos : pos = PosOf(a, o, p)
      OBVIOUS
    <3>10. By(l.s.pl[e].x \cup deflecting(l.s), f.eph) /\ By(l.x \cup l.e, f.eph)
      BY <2>7, <2>9, <3>4, <3>5, ByBoth
    <3>11. /\ a \in SUBSET Evals /\ o \in SUBSET Evals /\ p \in SUBSET Evals
           /\ By(a, f.eph) /\ By(o, f.eph) /\ By(p, f.eph)
      BY <2>7, <2>9, <3>2, <3>4, <3>5, <3>6, <3>7, <3>8, <3>10
    <3>12. pos \in PosType /\ Pure(pos, f.eph)
      BY <3>9, <3>11, Made
    <3>13. r = app_pos_rest(l.s, b, f, pos)
      BY <1>2, <2>1, <2>3, <2>4, <2>9, <3>6, <3>7, <3>8, <3>9 DEF app_pos_etc_plan, Then, PosOf
    <3>14. Shown(l.s, r.s, b, f) /\ r.s.fid = l.s.fid /\ r.rc = "OK" /\ r = Result(r.s, r.rc, r.x)
      BY <1>0, <3>1, <3>12, <3>13, Rest
    <3> QED
      BY <3>1, <3>14 DEF Shown, Keeps
  <2> QED
    BY <2>8, <2>9
<1> QED
  BY <1>1, <1>2

\* Chiron with the earth, once
Once(s, r) ==
  /\ Good(r.s) /\ Keeps(s, r.s) /\ r.f \in Flags /\ r.rc \in {"OK", "ERR", "NA"}
  /\ r.rc = "OK" => r.s.pl["chiron"].xflgs = r.f

LEMMA SunByIt ==
  ASSUME NEW s, Good(s), NEW f
  PROVE  s.pl["sunbary"].x \in SUBSET Evals /\ SunBy(s.pl["sunbary"].x, f)
<1>1. PICK b \in Slots : b = "sunbary"
  BY DEF Slots, Bodies
<1>2. s.pl[b].x \in SUBSET Evals
  BY TypedX
<1>3. \A e \in s.pl["sunbary"].x : e.src = "SWI"
  BY DEF Good, SlotsOK, SunOK
<1> QED
  BY <1>1, <1>2, <1>3 DEF SunBy, By

LEMMA ChironOnce ==
  ASSUME NEW s, Good(s), Asteroids(s), NEW t \in Dates, s.oec = t, NEW f \in Flags,
         f.eph = "SWI" => s.lasteph = "SWI", NEW r, r = chiron_once(s, t, f)
  PROVE  Once(s, r)
<1>1. PICK b \in Major \ {"sunbary"} : b = "earth"
  BY DEF Major
<1>2. PICK c : IsChiron(c)
  BY DEF IsChiron
<1>3. PICK g : g = Effective(s, f)
  OBVIOUS
<1>4. PICK e : e = main_planet(s, t, b, f)
  OBVIOUS
<1>5. /\ Left(s, e.s, b, g) /\ e.rc = "OK" /\ e = Result(e.s, e.rc, e.x)
      /\ f.eph = "MOS" => e.s.fid = s.fid
  BY <1>3, <1>4, MainPlanet
<1>6. /\ Good(e.s) /\ Keeps(s, e.s) /\ e.s.pl["earth"].xflgs = g
      /\ HasTheory(e.s, b, g) /\ g \in Flags /\ Asteroids(e.s)
  BY <1>1, <1>3, <1>5, EffectiveFacts DEF Left, Did, Keeps
<1>7. PICK sun : sun = e.s.pl["sunbary"].x
  OBVIOUS
<1>8. sun \in SUBSET Evals /\ SunBy(sun, g)
  BY <1>6, <1>7, SunByIt
<1>9. PICK m : m = ChironSaves(e.s, t, c, g, sun)
  OBVIOUS
<1>10. /\ KeptBut(e.s, m.s, c) /\ m.rc \in {"OK", "NA"}
       /\ m = Result(m.s, m.rc, m.x)
       /\ m.rc = "OK" => /\ m.s.pl[c].x \in SUBSET Evals /\ By(m.s.pl[c].x, g.eph)
                         /\ m.s.pl[c].teval = t
  BY <1>2, <1>6, <1>8, <1>9, ChironSavesIs
<1>11. Good(m.s) /\ Keeps(s, m.s) /\ m.s.oec \in Dates /\ Asteroids(m.s)
  BY <1>6, <1>10 DEF KeptBut, Keeps
<1>12. CASE m.rc # "OK"
  <2>1. r = Outcome(m.s, "ERR", g, {})
    BY <1>1, <1>2, <1>4, <1>5, <1>6, <1>7, <1>9, <1>12
    DEF chiron_once, Then, ChironSaves, IsChiron
  <2> QED
    BY <1>6, <1>11, <2>1 DEF Outcome, Once
<1>13. CASE m.rc = "OK"
  <2>1. PICK a : a = app_pos_etc_plan(m.s, c, g)
    OBVIOUS
  <2>2. HasTheory(m.s, "earth", g)
    <3>1. b \in Slots \ {c}
      BY <1>1, <1>2 DEF Slots, Bodies, IsChiron
    <3>2. SameSlot(e.s.pl[b], m.s.pl[b])
      BY <1>10, <3>1 DEF KeptBut, SameSlots
    <3> QED
      BY <1>1, <1>6, <3>2 DEF SameSlot, HasTheory
  <2>3. m.s.pl[c].teval \in Dates /\ By(m.s.pl[c].x, g.eph)
    BY <1>10, <1>13
  <2>4. /\ Good(a.s) /\ Keeps(m.s, a.s) /\ a.rc \in {"OK", "NA"}
        /\ a.rc = "OK" => a.s.pl[c].xflgs = g
    BY <1>2, <1>6, <1>11, <2>1, <2>2, <2>3, AppChiron
  <2>5. r = Outcome(a.s, a.rc, g, {})
    BY <1>1, <1>2, <1>4, <1>5, <1>6, <1>7, <1>9, <1>13, <2>1
    DEF chiron_once, Then, ChironSaves, IsChiron
  <2>6. r.s = a.s /\ r.rc = a.rc /\ r.f = g
    BY <2>5 DEF Outcome
  <2>7. Keeps(s, a.s)
    BY <1>11, <2>4 DEF Keeps
  <2> QED
    BY <1>2, <1>6, <2>4, <2>6, <2>7 DEF Once, IsChiron
<1> QED
  BY <1>12, <1>13

\* chiron: a second time by Moshier's theory where the file ends.
LEMMA Chiron ==
  ASSUME NEW s, Good(s), Asteroids(s), NEW t \in Dates, s.oec = t, NEW f \in Flags,
         f.eph = "SWI" => s.lasteph = "SWI", NEW r, r = chiron(s, t, f)
  PROVE  Answered(s, r)
<1>1. PICK a : a = chiron_once(s, t, f)
  OBVIOUS
<1>2. Once(s, a)
  BY <1>1, ChironOnce
<1>3. PICK o : o = IF a.rc = "NA" /\ f.eph = "SWI" THEN chiron_once(a.s, t, Mos(f)) ELSE a
  OBVIOUS
<1>4. Once(s, o)
  <2>1. CASE a.rc = "NA" /\ f.eph = "SWI"
    <3>1. PICK g : g = Mos(f)
      OBVIOUS
    <3>2. g \in Flags /\ g.eph = "MOS"
      BY <3>1, MosFacts
    <3>3. Good(a.s) /\ Keeps(s, a.s) /\ a.s.oec = t /\ Asteroids(a.s)
      BY <1>2 DEF Once, Keeps
    <3>4. o = chiron_once(a.s, t, g)
      BY <1>3, <2>1, <3>1
    <3>5. Once(a.s, o)
      BY <3>2, <3>3, <3>4, ChironOnce
    <3> QED
      BY <3>3, <3>5 DEF Once, Keeps
  <2>2. CASE ~(a.rc = "NA" /\ f.eph = "SWI")
    BY <1>2, <1>3, <2>2
  <2> QED
    BY <2>1, <2>2
<1>5. PICK b \in Slots : b = "chiron"
  BY DEF Slots, Bodies
<1>6. r = Given(o.s, o.rc, o.f, b)
  BY <1>1, <1>3, <1>5 DEF chiron, Then
<1>7. /\ Good(o.s) /\ Keeps(s, o.s) /\ o.f \in Flags
      /\ o.rc = "OK" => o.s.pl[b].xflgs = o.f
  BY <1>4, <1>5 DEF Once
<1> QED
  BY <1>6, <1>7, GivenIs

\* swi_osc_el_plan: the body, and the sun of the slot.
IsFict(b) == b = "fict"

LEMMA OscElPlan ==
  ASSUME NEW s, Good(s), NEW b, IsFict(b), NEW t \in Dates, NEW g \in Flags,
         HasTheory(s, "earth", g), g.eph = "MOS" => s.pl["sunbary"].x = {},
         NEW r, r = swi_osc_el_plan(s, t)
  PROVE  /\ Good(r) /\ Keeps(s, r) /\ r.fid = s.fid
         /\ r.pl[b].teval = t /\ By(r.pl[b].x, g.eph) /\ HasTheory(r, "earth", g)
<1>0. b \in Slots \ Major /\ FilesOK(s) /\ t \in Day /\ t \in AllDates
  BY DateFacts DEF Slots, Bodies, Major, Good, Day, IsFict
<1>1. PICK src \in Sources : src = read_elements_file(s)
  BY DEF read_elements_file, Sources
<1>2. PICK x : x = {Eval("fict", src, t, NoSeg)} \cup s.pl["sunbary"].x
  OBVIOUS
<1>3. x \in SUBSET Evals
  <2>1. NoSeg \in SegType
    BY DEF NoSeg, SegType
  <2>2. Eval("fict", src, t, NoSeg) \in Evals
    BY <1>0, <1>1, <2>1 DEF Eval, Evals, Names, Bodies
  <2> QED
    BY <1>2, <2>2, SunByIt
<1>4. By(x, g.eph)
  <2>1. \A e \in {Eval("fict", src, t, NoSeg)} : e.of = "fict"
    BY DEF Eval
  <2>2. SunBy(s.pl["sunbary"].x, g)
    BY SunByIt
  <2>3. By(s.pl["sunbary"].x, g.eph)
    BY <2>2 DEF SunBy, By, Flags
  <2> QED
    BY <1>2, <2>1, <2>3 DEF By
<1>6. PICK i \in Theories : i = s.pl["earth"].iephe
  BY <1>0 DEF FilesOK, Swed, PlanType, Slots, Bodies, Theories
<1>7. PICK q : q = SetX(s, b, x)
  OBVIOUS
<1>8. /\ FilesOK(q) /\ Keeps(s, q) /\ q.fid = s.fid
      /\ q.pl[b] = [s.pl[b] EXCEPT !.x = x] /\ q.pl[b] \in PlanType
      /\ \A c \in Slots \ {b} : q.pl[c] = s.pl[c]
  BY <1>0, <1>3, <1>7, PutX
<1>9. /\ q.pl[b].x = x /\ q.pl[b].xflgs = s.pl[b].xflgs
      /\ q.pl[b].xret = s.pl[b].xret
  <2>1. PICK o \in PlanType : o = s.pl[b]
    BY <1>0 DEF FilesOK, Swed
  <2>2. q.pl[b] = [o EXCEPT !.x = x]
    BY <1>8, <2>1
  <2> QED
    BY <2>1, <2>2 DEF PlanType
<1>10. PICK u : u = SetTeval(q, b, t)
  OBVIOUS
<1>a. FilesOK(q) /\ b \in Slots /\ t \in Day
  BY <1>0, <1>8
<1>11. /\ FilesOK(u) /\ Keeps(q, u) /\ u.fid = q.fid
       /\ u.pl[b].teval = t
       /\ SameSlot([q.pl[b] EXCEPT !.teval = t], u.pl[b])
       /\ \A c \in Slots \ {b} : u.pl[c] = q.pl[c]
  BY <1>10, <1>a, PutTeval
<1>12. /\ u.pl[b].x = x /\ u.pl[b].xflgs = s.pl[b].xflgs
       /\ u.pl[b].xret = s.pl[b].xret
  <2>1. PICK o \in PlanType : o = q.pl[b]
    BY <1>8
  <2>2. SameSlot([o EXCEPT !.teval = t], u.pl[b])
    BY <1>11, <2>1
  <2> QED
    BY <1>9, <2>1, <2>2 DEF PlanType, SameSlot
<1>13. r = SetIephe(u, b, i)
  BY <1>1, <1>2, <1>6, <1>7, <1>10 DEF swi_osc_el_plan, SetX, SetTeval, SetIephe, IsFict
<1>14. /\ FilesOK(r) /\ Keeps(u, r) /\ r.fid = u.fid
       /\ r.pl[b].teval = u.pl[b].teval /\ r.pl[b].x = u.pl[b].x
       /\ r.pl[b].xret = u.pl[b].xret /\ r.pl[b].xflgs = u.pl[b].xflgs
       /\ r.pl[b].iephe = i
       /\ \A c \in Slots \ {b} : r.pl[c] = u.pl[c]
  BY <1>0, <1>11, <1>13, PutIephe
<1>15. Keeps(s, r) /\ \A c \in Slots \ {b} : r.pl[c] = s.pl[c]
  BY <1>8, <1>11, <1>14 DEF Keeps
<1>16. SlotOK(s, b, r.pl[b])
  BY <1>0, <1>12, <1>14 DEF SlotOK, FlaggedOK, Good, SlotsOK, Major
<1>17. Good(r)
  BY <1>0, <1>14, <1>15, <1>16, GoodPut
<1>18. HasTheory(r, "earth", g)
  BY <1>15 DEF HasTheory, Slots, Bodies, IsFict
<1> QED
  BY <1>4, <1>8, <1>11, <1>12, <1>14, <1>15, <1>17, <1>18

\* The fictitious bodies: no file but the earth's.
LEMMA Fictitious ==
  ASSUME NEW s, Good(s), NEW t \in Dates, s.oec = t, NEW f \in Flags,
         s.lasteph = f.eph, NEW r, r = fictitious(s, t, f)
  PROVE  /\ Answered(s, r) /\ r.s.fid["seas"] = s.fid["seas"]
         /\ f.eph = "MOS" => r.s.fid = s.fid
<1>1. PICK b \in Major \ {"sunbary"} : b = "earth"
  BY DEF Major
<1>2. PICK g : g = Effective(s, f)
  OBVIOUS
<1>3. PICK e : e = main_planet(s, t, b, f)
  OBVIOUS
<1>4. /\ Left(s, e.s, b, g) /\ e.rc = "OK" /\ e = Result(e.s, e.rc, e.x)
      /\ f.eph = "MOS" => e.s.fid = s.fid
  BY <1>2, <1>3, MainPlanet
<1>5. /\ Good(e.s) /\ Keeps(s, e.s) /\ e.s.fid["seas"] = s.fid["seas"]
      /\ e.s.pl["earth"].xflgs = g /\ HasTheory(e.s, "earth", g) /\ g \in Flags
  BY <1>1, <1>2, <1>4, EffectiveFacts DEF Left, Did
<1>6. g.eph = "MOS" => e.s.pl["sunbary"].x = {}
  <2>1. g.eph = "MOS" => ~(f.eph = "SWI" /\ Exists(s, "sepl"))
    BY <1>2, EffectiveFacts
  <2>2. e.s.pl["sunbary"].x # {} => OnFiles(s)
    BY <1>5 DEF Good, SlotsOK, SunOK, OnFiles, Keeps, Exists, Covered
  <2> QED
    BY <2>1, <2>2 DEF OnFiles
<1>7. PICK c \in Slots : c = "fict"
  BY DEF Slots, Bodies
<1>8. PICK q : q = swi_osc_el_plan(e.s, t)
  OBVIOUS
<1>9. /\ Good(q) /\ Keeps(e.s, q) /\ q.fid = e.s.fid
      /\ q.pl[c].teval = t /\ By(q.pl[c].x, g.eph) /\ HasTheory(q, "earth", g)
  BY <1>5, <1>6, <1>7, <1>8, OscElPlan DEF IsFict
<1>10. PICK a : a = app_pos_etc_plan_osc(q, g)
  OBVIOUS
<1>11. q.oec \in Dates /\ q.pl["fict"].teval \in Dates /\ By(q.pl["fict"].x, g.eph)
  BY <1>5, <1>7, <1>9 DEF Keeps
<1>12. /\ Shown(q, a.s, "fict", g) /\ a.rc = "OK" /\ a = Result(a.s, a.rc, a.x)
       /\ a.s.fid["seas"] = q.fid["seas"] /\ (g.eph = "MOS" => a.s.fid = q.fid)
  BY <1>5, <1>9, <1>10, <1>11, AppOsc
<1>13. Good(a.s) /\ Keeps(s, a.s) /\ a.s.pl[c].xflgs = g
  BY <1>5, <1>7, <1>9, <1>12 DEF Shown, Keeps
<1>14. r = Given(a.s, a.rc, g, c)
  BY <1>1, <1>3, <1>4, <1>5, <1>7, <1>8, <1>10 DEF fictitious, Then
<1>15. Answered(s, r) /\ r.s = a.s
  BY <1>5, <1>13, <1>14, GivenIs
<1>16. f.eph = "MOS" => g.eph = "MOS"
  BY <1>2, EffectiveFacts
<1> QED
  BY <1>4, <1>5, <1>9, <1>12, <1>15, <1>16

\* Obliquity and nutation come from no body.
LEMMA EclNut ==
  ASSUME NEW s, Good(s), NEW f \in Flags, NEW r, r = ecl_nut(s, f)
  PROVE  Answered(s, r) /\ r.s = s
<1>1. s.oec \in Day /\ s.nut \in Day /\ 0 \in Day
  BY DEF Good, FilesOK, Swed, Day
<1>2. PICK x : x = [NoPos EXCEPT !.oec = s.oec, !.nut = s.nut]
  OBVIOUS
<1>3. x \in PosType /\ Pure(x, f.eph)
  BY <1>1, <1>2 DEF NoPos, PosType, Pure, By
<1>4. /\ r.s = s /\ r.rc = "OK" /\ r.f = f /\ r.x = x
      /\ r = Outcome(r.s, r.rc, r.f, r.x)
  BY <1>2 DEF ecl_nut, Outcome
<1> QED
  BY <1>3, <1>4 DEF Answered, Keeps, AnyFlags

-----------------------------------------------------------------------------
(* The calls.                                                               *)

\* A structure that keeps no position, and one that holds nothing
Emptied(r) ==
  /\ r \in Swed
  /\ r.pl = [b \in Slots |-> NoPlan] /\ r.save = [a \in Areas |-> NoSave]
Blank(r) == Emptied(r) /\ \A k \in Kinds : r.fid[k] = 0

LEMMA NothingTyped ==
  /\ NoPlan \in PlanType /\ NoSave \in SaveType /\ NoPos \in PosType
  /\ NoPlan.teval = 0 /\ NoPlan.x = {} /\ NoPlan.xflgs \notin Flags
  /\ NoSave.flags \notin Flags
BY NotFlags, NoPosFacts
DEF NoPlan, PlanType, NoSave, SaveType, NoSeg, SegType, AnyFlags, Day

\* An asteroid file may be open.
LEMMA EmptiedGood ==
  ASSUME NEW r, Emptied(r), OnDisk(r), r.fid["sepl"] = 0, r.fid["semo"] = 0
  PROVE  Good(r)
<1>1. FilesOK(r)
  BY DEF Emptied, FilesOK, Consts, HasConstants, Closed, Bodies, FileOf
<1>2. \A b \in Slots : r.pl[b] = NoPlan
  BY DEF Emptied
<1>3. \A b \in Slots : FlaggedOK(r.pl[b]) /\ DatedOK(r, r.pl[b]) /\ TheoryOK(r.pl[b])
  BY <1>2, NothingTyped DEF FlaggedOK, DatedOK, TheoryOK
<1>4. SunOK(r)
  <2>1. "sunbary" \in Slots
    BY DEF Slots, Bodies
  <2> QED
    BY <1>2, <2>1, NothingTyped DEF SunOK
<1>5. SlotsOK(r)
  BY <1>3, <1>4 DEF SlotsOK, Major, Slots, Bodies
<1>6. SavesOK(r)
  BY NothingTyped DEF SavesOK, Emptied
<1> QED
  BY <1>1, <1>5, <1>6 DEF Good

LEMMA BlankGood ==
  ASSUME NEW r, Blank(r)
  PROVE  Good(r) /\ Asteroids(r) /\ \A k \in Kinds : r.fid[k] = 0
<1>1. Emptied(r) /\ OnDisk(r) /\ r.fid["sepl"] = 0 /\ r.fid["semo"] = 0 /\ r.fid["seas"] = 0
  BY DEF Blank, OnDisk, Kinds
<1>2. Good(r)
  BY <1>1, EmptiedGood
<1>3. Asteroids(r)
  BY <1>1 DEF Asteroids, HasConstants, FileOf
<1> QED
  BY <1>2, <1>3 DEF Blank

\* What the structure was made from is what was computed.
LEMMA GoodSame ==
  ASSUME NEW s, Good(s), NEW r \in Swed, r.pl = s.pl, r.save = s.save, r.fid = s.fid,
         r.path = s.path, r.disk = s.disk, r.lasteph = s.lasteph
  PROVE  Good(r) /\ (Asteroids(s) => Asteroids(r))
<1>1. \A k : Exists(r, k) <=> Exists(s, k)
  BY DEF Exists, Covered
<1>2. FilesOK(r)
  BY <1>1 DEF Good, FilesOK, Consts, HasConstants, OnDisk, Closed
<1>3. SlotsOK(r)
  BY <1>1 DEF Good, SlotsOK, DatedOK, SunOK, OnFiles
<1>4. SavesOK(r)
  BY DEF Good, SavesOK
<1>5. Asteroids(s) => Asteroids(r)
  BY DEF Asteroids, HasConstants
<1> QED
  BY <1>2, <1>3, <1>4, <1>5 DEF Good

LEMMA ZeroIsBlank ==
  ASSUME NEW disk \in Disks, NEW r, r = Zero(disk) PROVE Blank(r) /\ r.disk = disk
<1>1. PICK z \in Day : z = 0
  BY DEF Day
<1>2. [b \in Slots |-> NoPlan] \in [Slots -> PlanType]
  BY NothingTyped
<1>3. [a \in Areas |-> NoSave] \in [Areas -> SaveType]
  BY NothingTyped
<1>4. [k \in Kinds |-> 0] \in [Kinds -> Nat] /\ DefaultPath \in Paths
  BY DatesAssumption
<1>5. [star |-> "none", data |-> {}] \in [star : Stars \cup {"none"}, data : SUBSET StarData]
  OBVIOUS
<1>6. r \in Swed
  BY <1>1, <1>2, <1>3, <1>4, <1>5 DEF Zero, Swed
<1> QED
  BY <1>6 DEF Zero, Blank, Emptied

\* Closing the library's files and forgetting all it computed
ClearedOf(s, e) == [close_files(free_planets(s)) EXCEPT !.lasteph = e]

LEMMA Cleared ==
  ASSUME NEW s \in Swed, NEW e \in Theories, NEW r, r = ClearedOf(s, e)
  PROVE  Blank(r) /\ r.lasteph = e /\ r.disk = s.disk /\ r.path = s.path /\ r.last = s.last
<1>1. PICK pl : pl = [b \in Slots |-> NoPlan]
  OBVIOUS
<1>2. PICK save : save = [a \in Areas |-> NoSave]
  OBVIOUS
<1>3. PICK fid : fid = [k \in Kinds |-> 0]
  OBVIOUS
<1>4. DOMAIN s.save = Areas
  BY DEF Swed
<1>5. r = [s EXCEPT !.pl = pl, !.save = save, !.fid = fid, !.lasteph = e]
  BY <1>1, <1>2, <1>3, <1>4 DEF ClearedOf, close_files, free_planets
<1>6. pl \in [Slots -> PlanType] /\ save \in [Areas -> SaveType] /\ fid \in [Kinds -> Nat]
  BY <1>1, <1>2, <1>3, NothingTyped
<1>7. /\ r \in Swed /\ r.pl = pl /\ r.save = save /\ r.fid = fid
      /\ r.lasteph = e /\ r.disk = s.disk /\ r.path = s.path /\ r.last = s.last
  BY <1>5, <1>6 DEF Swed, Theories
<1> QED
  BY <1>1, <1>2, <1>3, <1>7 DEF Blank, Emptied

\* free_planets alone: the files stay as they are.
LEMMA Freed ==
  ASSUME NEW s \in Swed, NEW r, r = free_planets(s)
  PROVE  /\ Emptied(r) /\ r.fid = s.fid /\ r.lasteph = s.lasteph
         /\ r.disk = s.disk /\ r.path = s.path
<1>1. PICK pl : pl = [b \in Slots |-> NoPlan]
  OBVIOUS
<1>2. PICK save : save = [a \in Areas |-> NoSave]
  OBVIOUS
<1>4. DOMAIN s.save = Areas
  BY DEF Swed
<1>5. r = [s EXCEPT !.pl = pl, !.save = save]
  BY <1>1, <1>2, <1>4 DEF free_planets
<1>6. pl \in [Slots -> PlanType] /\ save \in [Areas -> SaveType]
  BY <1>1, <1>2, NothingTyped
<1>7. /\ r \in Swed /\ r.pl = pl /\ r.save = save /\ r.fid = s.fid
      /\ r.lasteph = s.lasteph /\ r.disk = s.disk /\ r.path = s.path
  BY <1>5, <1>6 DEF Swed
<1> QED
  BY <1>1, <1>2, <1>7 DEF Emptied

\* The first call finds a structure that holds nothing.
LEMMA InitSwed ==
  ASSUME NEW s, Good(s), NEW r, r = swi_init_swed_if_start(s)
  PROVE  /\ Good(r) /\ r.disk = s.disk
         /\ r = s \/ Blank(r)
<1>1. CASE s.init
  BY <1>1 DEF swi_init_swed_if_start
<1>2. CASE ~s.init
  <2>1. PICK z : z = Zero(s.disk)
    OBVIOUS
  <2>2. s.disk \in Disks /\ s.nutspeed \in BOOLEAN
    BY DEF Good, FilesOK, Swed
  <2>3. Blank(z) /\ z.disk = s.disk
    BY <2>1, <2>2, ZeroIsBlank
  <2>4. r = [z EXCEPT !.init = TRUE, !.nutspeed = s.nutspeed]
    BY <1>2, <2>1 DEF swi_init_swed_if_start
  <2>5. /\ r \in Swed /\ r.pl = z.pl /\ r.save = z.save /\ r.fid = z.fid /\ r.disk = z.disk
    BY <2>2, <2>3, <2>4 DEF Blank, Emptied, Swed
  <2>6. Blank(r)
    BY <2>3, <2>5 DEF Blank, Emptied
  <2> QED
    BY <2>3, <2>5, <2>6, BlankGood
<1> QED
  BY <1>1, <1>2

\* Obliquity and nutation of the date: nothing else changes.
Alike(s, r) ==
  /\ r.pl = s.pl /\ r.save = s.save /\ r.fid = s.fid
  /\ r.path = s.path /\ r.disk = s.disk /\ r.lasteph = s.lasteph

LEMMA CheckEcliptic ==
  ASSUME NEW s \in Swed, NEW t \in Dates, NEW r, r = swi_check_ecliptic(s, t)
  PROVE  r \in Swed /\ Alike(s, r) /\ r.oec = t
BY DEF swi_check_ecliptic, Swed, Alike, Day

LEMMA CheckNutation ==
  ASSUME NEW s \in Swed, NEW t \in Dates, NEW f \in Flags, NEW r, r = swi_check_nutation(s, t, f)
  PROVE  r \in Swed /\ Alike(s, r) /\ r.oec = s.oec
<1>1. f.speed \in BOOLEAN /\ t \in Day
  BY DEF Flags, Day
<1>2. CASE r = s
  BY <1>2 DEF Alike
<1>3. CASE r = [s EXCEPT !.nut = t, !.nutspeed = f.speed,
                         !.nutv = IF f.speed THEN t ELSE s.nutv]
  <2>1. PICK v \in Day : v = IF f.speed THEN t ELSE s.nutv
    BY <1>1 DEF Swed
  <2>2. r = [s EXCEPT !.nut = t, !.nutspeed = f.speed, !.nutv = v]
    BY <1>3, <2>1
  <2> QED
    BY <1>1, <2>2 DEF Swed, Alike
<1> QED
  BY <1>2, <1>3 DEF swi_check_nutation

\* swecalc and swi_fixstar_calc_from_record begin so.
CheckedOf(s, t, f) == swi_check_nutation(swi_check_ecliptic(s, t), t, f)

LEMMA Checked ==
  ASSUME NEW s, Good(s), NEW t \in Dates, NEW f \in Flags, NEW r, r = CheckedOf(s, t, f)
  PROVE  Good(r) /\ Alike(s, r) /\ r.oec = t /\ (Asteroids(s) => Asteroids(r))
<1>1. s \in Swed
  BY DEF Good, FilesOK
<1>2. PICK e : e = swi_check_ecliptic(s, t)
  OBVIOUS
<1>3. e \in Swed /\ Alike(s, e) /\ e.oec = t
  BY <1>1, <1>2, CheckEcliptic
<1>4. r = swi_check_nutation(e, t, f)
  BY <1>2 DEF CheckedOf
<1>5. r \in Swed /\ Alike(e, r) /\ r.oec = e.oec
  BY <1>3, <1>4, CheckNutation
<1>6. Alike(s, r) /\ r.oec = t
  BY <1>3, <1>5 DEF Alike
<1> QED
  BY <1>5, <1>6, GoodSame DEF Alike

SetSave(s, a, v) == [s EXCEPT !.save = [s.save EXCEPT ![a] = v]]

\* An answer is kept with its flags.
LEMMA SaveIt ==
  ASSUME NEW s, Good(s), NEW a \in Areas, NEW v \in SaveType,
         v.flags \in Flags => Pure(v.x, v.flags.eph),
         NEW r, r = SetSave(s, a, v)
  PROVE  /\ Good(r) /\ r.save[a] = v
         /\ r.fid = s.fid /\ r.path = s.path /\ r.disk = s.disk /\ r.lasteph = s.lasteph
         /\ Asteroids(s) => Asteroids(r)
<1>1. s \in Swed
  BY DEF Good, FilesOK
<1>2. PICK w : w = [s.save EXCEPT ![a] = v]
  OBVIOUS
<1>3. /\ w \in [Areas -> SaveType] /\ w[a] = v
      /\ \A b \in Areas : w[b] = v \/ w[b] = s.save[b]
  BY <1>1, <1>2 DEF Swed
<1>4. r = [s EXCEPT !.save = w]
  BY <1>2 DEF SetSave
<1>5. /\ r \in Swed /\ r.pl = s.pl /\ r.save = w /\ r.fid = s.fid
      /\ r.path = s.path /\ r.disk = s.disk /\ r.lasteph = s.lasteph
  BY <1>1, <1>3, <1>4 DEF Swed
<1>6. \A k : Exists(r, k) <=> Exists(s, k)
  BY <1>5 DEF Exists, Covered
<1>7. FilesOK(r)
  BY <1>5, <1>6 DEF Good, FilesOK, Consts, HasConstants, OnDisk, Closed
<1>8. SlotsOK(r)
  BY <1>5, <1>6 DEF Good, SlotsOK, DatedOK, SunOK, OnFiles
<1>9. SavesOK(r)
  BY <1>3, <1>5 DEF Good, SavesOK
<1>10. Asteroids(s) => Asteroids(r)
  BY <1>5 DEF Asteroids, HasConstants
<1> QED
  BY <1>3, <1>5, <1>7, <1>8, <1>9, <1>10 DEF Good

\* swe_set_ephe_path: nothing of before is left, and no asteroid file is open.
LEMMA KeepTopo ==
  ASSUME NEW s, Good(s), NEW r, r = swi_close_keep_topo_etc(s)
  PROVE  Blank(r) /\ r.disk = s.disk
<1>1. s \in Swed
  BY DEF Good, FilesOK
<1>2. PICK fid : fid = [k \in Kinds |-> 0]
  OBVIOUS
<1>3. PICK c : c = close_files(s)
  OBVIOUS
<1>4. c = [s EXCEPT !.fid = fid]
  BY <1>2, <1>3 DEF close_files
<1>5. c \in Swed /\ c.fid = fid /\ c.disk = s.disk
  BY <1>1, <1>2, <1>4 DEF Swed
<1>6. PICK e : e = free_planets(c)
  OBVIOUS
<1>7. Blank(e) /\ e.disk = s.disk
  BY <1>2, <1>5, <1>6, Freed DEF Blank
<1>8. r = [e EXCEPT !.oec = 0, !.nut = 0, !.nutv = 0]
  BY <1>3, <1>6 DEF swi_close_keep_topo_etc
<1>9. e \in Swed /\ 0 \in Day
  BY <1>7 DEF Blank, Emptied, Day
<1>10. /\ r \in Swed /\ r.pl = e.pl /\ r.save = e.save /\ r.fid = e.fid /\ r.disk = e.disk
  BY <1>8, <1>9 DEF Swed
<1> QED
  BY <1>7, <1>10 DEF Blank, Emptied

PathOf(s, p) == [s EXCEPT !.pathset = TRUE, !.path = p, !.lasteph = "SWI"]

LEMMA NewPath ==
  ASSUME NEW s, Good(s), NEW p \in Paths,
         NEW r, r = PathOf(swi_init_swed_if_start(swi_close_keep_topo_etc(s)), p)
  PROVE  Blank(r) /\ r.disk = s.disk /\ r.path = p /\ r.lasteph = "SWI"
<1>1. PICK c : c = swi_close_keep_topo_etc(s)
  OBVIOUS
<1>2. Blank(c) /\ c.disk = s.disk
  BY <1>1, KeepTopo
<1>3. PICK i : i = swi_init_swed_if_start(c)
  OBVIOUS
<1>4. Good(c)
  BY <1>2, BlankGood
<1>5. Good(i) /\ i.disk = c.disk /\ (i = c \/ Blank(i))
  BY <1>3, <1>4, InitSwed
<1>6. Blank(i) /\ i \in Swed
  BY <1>2, <1>5 DEF Blank, Emptied
<1>7. r = [i EXCEPT !.pathset = TRUE, !.path = p, !.lasteph = "SWI"]
  BY <1>1, <1>3 DEF PathOf
<1>8. /\ r \in Swed /\ r.pl = i.pl /\ r.save = i.save /\ r.fid = i.fid /\ r.disk = i.disk
      /\ r.path = p /\ r.lasteph = "SWI"
  BY <1>6, <1>7 DEF Swed
<1> QED
  BY <1>2, <1>5, <1>6, <1>8 DEF Blank, Emptied

LEMMA SetsPath ==
  ASSUME NEW s, Good(s), NEW p \in Paths, NEW r, r = swe_set_ephe_path(s, p)
  PROVE  /\ Good(r) /\ r.path = p /\ r.lasteph = "SWI" /\ r.disk = s.disk
         /\ r.fid["seas"] = 0 /\ Asteroids(r)
<1>1. PICK n : n = PathOf(swi_init_swed_if_start(swi_close_keep_topo_etc(s)), p)
  OBVIOUS
<1>2. Blank(n) /\ n.disk = s.disk /\ n.path = p /\ n.lasteph = "SWI"
  BY <1>1, NewPath
<1>3. PICK e : e = swi_check_ecliptic(n, J2000)
  OBVIOUS
<1>4. J2000 \in Dates
  BY DatesAssumption
<1>5. e \in Swed /\ Alike(n, e) /\ e.oec = J2000
  BY <1>2, <1>3, <1>4, CheckEcliptic DEF Blank, Emptied
<1>6. Blank(e) /\ Good(e) /\ Asteroids(e)
  BY <1>2, <1>5, BlankGood DEF Blank, Emptied, Alike
<1>7. PICK f \in Flags : f = Raw
  BY DEF Raw, Flags
<1>8. PICK m : m = moon(e, J2000, f)
  OBVIOUS
<1>9. e.lasteph = "SWI"
  BY <1>2, <1>5 DEF Alike
<1>10. /\ Answered(e, m) /\ m.s.fid["seas"] = e.fid["seas"]
       /\ f.eph = "MOS" => m.s.fid = e.fid
  BY <1>4, <1>5, <1>6, <1>8, <1>9, Moon
<1>11. PICK v : v = [ipl |-> "MOON", tsave |-> J2000, flags |-> m.f, x |-> m.x]
  OBVIOUS
<1>12. v \in SaveType /\ (v.flags \in Flags => Pure(v.x, v.flags.eph))
  <2>1. J2000 \in Day /\ "MOON" \in Planets
    BY <1>4 DEF Day, Planets
  <2>2. m.f \in AnyFlags /\ m.x \in PosType /\ (m.f \in Flags => Pure(m.x, m.f.eph))
    BY <1>10 DEF Answered
  <2>3. v \in SaveType
    BY <1>11, <2>1, <2>2 DEF SaveType
  <2> QED
    BY <1>11, <2>2, <2>3
<1>13. PICK a \in Areas : a = "MOON"
  BY DEF Areas, Planets
<1>14. PICK w : w = m.s
  OBVIOUS
<1>15. r = SetSave(w, a, v)
  BY <1>1, <1>3, <1>7, <1>8, <1>11, <1>13, <1>14 DEF swe_set_ephe_path, Then, PathOf, SetSave
<1>16. Good(w) /\ Keeps(e, w) /\ w.fid["seas"] = 0
  <2>1. Good(w) /\ Keeps(e, w)
    BY <1>10, <1>14 DEF Answered
  <2>2. w.fid["seas"] = e.fid["seas"]
    BY <1>10, <1>14
  <2>3. e.fid["seas"] = 0
    BY <1>6 DEF Blank, Kinds
  <2> QED
    BY <2>1, <2>2, <2>3
<1>17. /\ Good(r) /\ r.save[a] = v
       /\ r.fid = w.fid /\ r.path = w.path /\ r.disk = w.disk /\ r.lasteph = w.lasteph
       /\ Asteroids(w) => Asteroids(r)
  BY <1>12, <1>15, <1>16, SaveIt
<1> QED
  BY <1>2, <1>5, <1>6, <1>16, <1>17 DEF Keeps, Alike

\* One body, whichever it is
ComputedOf(s, q) ==
  CASE q.ipl = "NUT"              -> ecl_nut(s, q.f)
    [] q.ipl = "MOON"             -> moon(s, q.t, q.f)
    [] q.ipl \in {"SUN", "MARS"}  -> planet(s, q.t, SlotOf[q.ipl], q.f)
    [] q.ipl = "MEAN"             -> mean_node(s, q.t, q.f)
    [] q.ipl \in {"NODE", "OSCU"} -> lunar_osc_elem(s, q.t, SlotOf[q.ipl], q.f)
    [] q.ipl = "CHIRON"           -> chiron(s, q.t, q.f)
    [] q.ipl = "FICT"             -> fictitious(s, q.t, q.f)

LEMMA AskableFacts ==
  ASSUME NEW q \in Askable PROVE q.t \in Dates /\ q.f \in Flags /\ q.ipl \in Ipls
BY DEF Askable

LEMMA Computed ==
  ASSUME NEW s, Good(s), NEW q \in Askable, q.ipl \in Planets, s.oec = q.t,
         q.ipl # "NUT" => s.lasteph = q.f.eph, q.ipl = "CHIRON" => Asteroids(s),
         NEW r, r = ComputedOf(s, q)
  PROVE  /\ Answered(s, r)
         /\ q.ipl = "NUT" => r.s = s
         /\ q.ipl = "FICT" => /\ r.s.fid["seas"] = s.fid["seas"]
                              /\ q.f.eph = "MOS" => r.s.fid = s.fid
<1>0. PICK t \in Dates : t = q.t
  BY AskableFacts
<1>a. PICK f \in Flags : f = q.f
  BY AskableFacts
<1>b. s.oec = t
  BY <1>0
<1>1. CASE q.ipl = "NUT"
  <2>1. r = ecl_nut(s, f)
    BY <1>1, <1>a DEF ComputedOf
  <2> QED
    BY <1>1, <2>1, EclNut
<1>2. CASE q.ipl = "MOON"
  <2>1. r = moon(s, t, f) /\ (f.eph = "SWI" => s.lasteph = "SWI")
    BY <1>0, <1>2, <1>a DEF ComputedOf
  <2>2. /\ Answered(s, r) /\ r.s.fid["seas"] = s.fid["seas"]
        /\ f.eph = "MOS" => r.s.fid = s.fid
    BY <1>b, <2>1, Moon
  <2> QED
    BY <1>2, <2>2
<1>3. CASE q.ipl \in {"SUN", "MARS"}
  <2>1. PICK b \in Major \ {"sunbary"} : b = SlotOf[q.ipl]
    BY <1>3 DEF SlotOf, Major
  <2>2. r = planet(s, t, b, f) /\ (f.eph = "SWI" => s.lasteph = "SWI")
    BY <1>0, <1>3, <1>a, <2>1 DEF ComputedOf
  <2>3. Answered(s, r)
    BY <1>b, <2>2, Planet
  <2> QED
    BY <1>3, <2>3
<1>4. CASE q.ipl = "MEAN"
  <2>1. r = mean_node(s, t, f)
    BY <1>0, <1>4, <1>a DEF ComputedOf
  <2> QED
    BY <1>4, <2>1, MeanNode
<1>5. CASE q.ipl \in {"NODE", "OSCU"}
  <2>1. PICK b \in {"node", "apog"} : b = SlotOf[q.ipl]
    BY <1>5 DEF SlotOf
  <2>2. r = lunar_osc_elem(s, t, b, f) /\ (f.eph = "SWI" => s.lasteph = "SWI")
    BY <1>0, <1>5, <1>a, <2>1 DEF ComputedOf
  <2>3. Answered(s, r)
    BY <2>2, LunarOscElem
  <2> QED
    BY <1>5, <2>3
<1>6. CASE q.ipl = "CHIRON"
  <2>1. r = chiron(s, t, f) /\ (f.eph = "SWI" => s.lasteph = "SWI") /\ Asteroids(s)
    BY <1>0, <1>6, <1>a DEF ComputedOf
  <2>2. Answered(s, r)
    BY <1>b, <2>1, Chiron
  <2> QED
    BY <1>6, <2>2
<1>7. CASE q.ipl = "FICT"
  <2>1. r = fictitious(s, t, f) /\ s.lasteph = f.eph
    BY <1>0, <1>7, <1>a DEF ComputedOf
  <2>2. /\ Answered(s, r) /\ r.s.fid["seas"] = s.fid["seas"]
        /\ f.eph = "MOS" => r.s.fid = s.fid
    BY <1>b, <2>1, Fictitious
  <2> QED
    BY <1>7, <1>a, <2>2
<1> QED
  BY <1>1, <1>2, <1>3, <1>4, <1>5, <1>6, <1>7 DEF Planets

\* An answer and the structure it leaves
Answer(r) ==
  /\ Good(r.s) /\ r.f \in AnyFlags /\ r.x \in PosType
  /\ r = Outcome(r.s, r.rc, r.f, r.x)
  /\ r.rc = "OK" => r.f \in Flags
  /\ r.f \in Flags => Pure(r.x, r.f.eph)

\* The theory of the last call, and the files that may be open after it
Named(s, r, q) ==
  /\ r.disk = s.disk /\ (Asteroids(s) => Asteroids(r))
  /\ q.ipl # "NUT" => r.lasteph = q.f.eph
  /\ q.ipl = "NUT" => \/ r.lasteph = q.f.eph /\ Asteroids(r)
                      \/ r.fid = s.fid /\ r.lasteph = s.lasteph
  /\ q.ipl = "FICT" => /\ r.fid["seas"] \in {s.fid["seas"], 0}
                       /\ q.f.eph = "MOS" => r.fid = s.fid

LEMMA Swecalc ==
  ASSUME NEW s, Good(s), NEW q \in Askable, q.ipl \in Planets,
         q.ipl # "NUT" => s.lasteph = q.f.eph, q.ipl = "CHIRON" => Asteroids(s),
         NEW r, r = swecalc(s, q)
  PROVE  Answer(r) /\ Named(s, r.s, q)
<1>1. PICK s1 : s1 = IF q.f.eph = "SWI" /\ ~s.pathset THEN swe_set_ephe_path(s, DefaultPath) ELSE s
  OBVIOUS
<1>2. /\ Good(s1) /\ s1.disk = s.disk
      /\ s1 = s \/ (q.f.eph = "SWI" /\ s1.lasteph = "SWI" /\ s1.fid["seas"] = 0 /\ Asteroids(s1))
  <2>1. CASE q.f.eph = "SWI" /\ ~s.pathset
    <3>1. s1 = swe_set_ephe_path(s, DefaultPath) /\ DefaultPath \in Paths
      BY <1>1, <2>1, DatesAssumption
    <3>2. /\ Good(s1) /\ s1.path = DefaultPath /\ s1.lasteph = "SWI" /\ s1.disk = s.disk
          /\ s1.fid["seas"] = 0 /\ Asteroids(s1)
      BY <3>1, SetsPath
    <3> QED
      BY <2>1, <3>2
  <2>2. CASE ~(q.f.eph = "SWI" /\ ~s.pathset)
    BY <1>1, <2>2
  <2> QED
    BY <2>1, <2>2
<1>3. PICK s2 : s2 = CheckedOf(s1, q.t, q.f)
  OBVIOUS
<1>4. Good(s2) /\ Alike(s1, s2) /\ s2.oec = q.t /\ (Asteroids(s1) => Asteroids(s2))
  BY <1>2, <1>3, AskableFacts, Checked
<1>5. r = ComputedOf(s2, q)
  BY <1>1, <1>3 DEF swecalc, ComputedOf, CheckedOf, Then
<1>6. /\ q.ipl # "NUT" => s2.lasteph = q.f.eph
      /\ q.ipl = "CHIRON" => Asteroids(s2)
  BY <1>2, <1>4 DEF Alike
<1>7. /\ Answered(s2, r)
      /\ q.ipl = "NUT" => r.s = s2
      /\ q.ipl = "FICT" => /\ r.s.fid["seas"] = s2.fid["seas"]
                           /\ q.f.eph = "MOS" => r.s.fid = s2.fid
  BY <1>4, <1>5, <1>6, Computed
<1>8. Answer(r)
  BY <1>7 DEF Answered, Answer
<1>9. /\ r.s.disk = s.disk /\ r.s.lasteph = s2.lasteph
      /\ Asteroids(s2) => Asteroids(r.s)
  BY <1>2, <1>4, <1>7 DEF Answered, Keeps, Alike
<1>10. q.ipl = "NUT" => \/ r.s.lasteph = q.f.eph /\ Asteroids(r.s)
                        \/ r.s.fid = s.fid /\ r.s.lasteph = s.lasteph
  BY <1>2, <1>4, <1>7 DEF Alike
<1>11. q.ipl = "FICT" => /\ r.s.fid["seas"] \in {s.fid["seas"], 0}
                         /\ q.f.eph = "MOS" => r.s.fid = s.fid
  BY <1>2, <1>4, <1>7 DEF Alike
<1>12. Asteroids(s) => Asteroids(r.s)
  BY <1>2, <1>4, <1>9
<1> QED
  BY <1>6, <1>8, <1>9, <1>10, <1>11, <1>12 DEF Named

LEMMA AsksAlike ==
  ASSUME NEW c \in Clients, NEW n \in c.asks, n.ipl = "NUT", NEW q \in c.asks
  PROVE  q.ipl = "FICT" \/ q.f.eph = n.f.eph
BY ClientsAssumption

\* The first chart is Moshier's, without obliquity and nutation.
LEMMA MayAskFacts ==
  ASSUME NEW c \in Clients, NEW ch \in BOOLEAN, NEW q \in MayAsk(c, ch)
  PROVE  /\ q \in Askable /\ q.f.eph \in {"MOS", "SWI"}
         /\ q.ipl = "NUT" \/ q.f.eph = "SWI" => ch /\ q \in c.asks
         /\ q.ipl \in Stars => q.f.eph = "MOS"
<1>1. q \in Askable
  BY ClientsAssumption DEF MayAsk
<1>2. q.f.eph \in {"MOS", "SWI"}
  BY <1>1, AskableFacts DEF Flags
<1>3. ~ch => q.f.eph = "MOS" /\ q.ipl # "NUT"
  BY ClientsAssumption DEF MayAsk
<1>4. ch => q \in c.asks
  BY DEF MayAsk
<1>5. q.ipl \in Stars => q.f.eph = "MOS"
  BY <1>3, <1>4, ClientsAssumption
<1> QED
  BY <1>1, <1>2, <1>3, <1>4, <1>5

\* A structure that holds nothing is ready for any call.
LEMMA BlankOK ==
  ASSUME NEW c, NEW ch, NEW r, Blank(r)
  PROVE  Good(r) /\ NutOK(c, r) /\ AsteroidsOK(c, ch, r) /\ Asteroids(r)
<1>1. Good(r) /\ Asteroids(r) /\ \A k \in Kinds : r.fid[k] = 0
  BY BlankGood
<1> QED
  BY <1>1 DEF NutOK, AsteroidsOK

\* The asteroids' constants are there when they are needed.
LEMMA ReadyFor ==
  ASSUME NEW c \in Clients, NEW ch \in BOOLEAN, NEW q \in MayAsk(c, ch), NEW s,
         AsteroidsOK(c, ch, s), s.lasteph = q.f.eph, q.ipl = "CHIRON" \/ q.f.eph = "SWI"
  PROVE  Asteroids(s)
<1> SUFFICES ASSUME ~Asteroids(s) PROVE FALSE
  OBVIOUS
<1>1. ch /\ q.f.eph = "MOS" /\ NutBySwi(c)
  BY DEF AsteroidsOK
<1>2. PICK n \in c.asks : n.ipl = "NUT" /\ n.f.eph = "SWI"
  BY <1>1 DEF NutBySwi
<1>3. q \in c.asks /\ q.ipl = "CHIRON"
  BY <1>1 DEF MayAsk
<1> QED
  BY <1>1, <1>2, <1>3, AsksAlike

\* A call for the other theory forgets what was computed by the last one.  If
\* it is for obliquity and nutation, an asteroid file may stay open without
\* its constants.
LEMMA SwitchEphemeris ==
  ASSUME NEW c \in Clients, NEW ch \in BOOLEAN, NEW q \in MayAsk(c, ch),
         NEW s, Good(s), NutOK(c, s), AsteroidsOK(c, ch, s),
         NEW r, r = switch_ephemeris(s, q)
  PROVE  /\ Good(r) /\ r.disk = s.disk /\ NutOK(c, r) /\ AsteroidsOK(c, ch, r)
         /\ q.ipl # "NUT" => r.lasteph = q.f.eph
         /\ q.ipl # "NUT" /\ (q.ipl = "CHIRON" \/ q.f.eph = "SWI") => Asteroids(r)
<1>0. s \in Swed /\ q \in Askable
  BY MayAskFacts DEF Good, FilesOK
<1>1. CASE s.lasteph = q.f.eph
  <2>1. r = s
    BY <1>1 DEF switch_ephemeris
  <2>2. q.ipl = "CHIRON" \/ q.f.eph = "SWI" => Asteroids(r)
    BY <1>1, <2>1, ReadyFor
  <2> QED
    BY <1>1, <2>1, <2>2
<1>2. CASE s.lasteph # q.f.eph /\ q.ipl = "NUT"
  <2>1. ch /\ q \in c.asks /\ q.f.eph \in {"MOS", "SWI"}
    BY <1>2, MayAskFacts
  <2>2. r = free_planets(s)
    BY <1>2 DEF switch_ephemeris
  <2>3. /\ Emptied(r) /\ r.fid = s.fid /\ r.lasteph = s.lasteph
        /\ r.disk = s.disk /\ r.path = s.path
    BY <1>0, <2>2, Freed
  <2>4. CASE \A k \in Kinds : s.fid[k] = 0
    <3>1. Blank(r)
      BY <2>3, <2>4 DEF Blank
    <3> QED
      BY <1>2, <2>3, <3>1, BlankOK
  <2>5. CASE \E k \in Kinds : s.fid[k] # 0
    <3>1. s.lasteph = "MOS"
      BY <1>2, <2>1, <2>5 DEF NutOK
    <3>2. r.fid["sepl"] = 0 /\ r.fid["semo"] = 0
      BY <2>3, <3>1 DEF Good, FilesOK, Closed
    <3>3. OnDisk(r)
      BY <2>3 DEF Good, FilesOK, OnDisk, Exists, Covered
    <3>4. Good(r)
      BY <2>3, <3>2, <3>3, EmptiedGood
    <3>5. NutBySwi(c)
      BY <1>2, <2>1, <3>1 DEF NutBySwi
    <3>6. r.lasteph = "MOS"
      BY <2>3, <3>1
    <3> QED
      BY <1>2, <2>1, <2>3, <3>4, <3>5, <3>6 DEF NutOK, AsteroidsOK
  <2> QED
    BY <2>4, <2>5
<1>3. CASE s.lasteph # q.f.eph /\ q.ipl # "NUT"
  <2>1. PICK e \in Theories : e = q.f.eph
    BY <1>0, AskableFacts DEF Flags, Theories
  <2>2. r = ClearedOf(s, e)
    BY <1>3, <2>1 DEF switch_ephemeris, ClearedOf
  <2>3. Blank(r) /\ r.lasteph = e /\ r.disk = s.disk /\ r.path = s.path /\ r.last = s.last
    BY <1>0, <2>2, Cleared
  <2> QED
    BY <2>1, <2>3, BlankOK
<1> QED
  BY <1>1, <1>2, <1>3

\* Where obliquity and nutation are asked by Moshier's theory no planet file
\* can be open.
LEMMA NoPlanetFile ==
  ASSUME NEW c \in Clients, NEW n \in c.asks, n.ipl = "NUT", n.f.eph = "MOS",
         NEW s, Good(s), s.disk = c.disk, s.fid["seas"] = 0
  PROVE  \A k \in Kinds : s.fid[k] = 0
<1>1. s.path \in Paths /\ OnDisk(s)
  BY DEF Good, FilesOK, Swed
<1>2. c.disk[s.path]["sepl"] = {} /\ c.disk[s.path]["semo"] = {}
  BY <1>1, ClientsAssumption
<1>3. ~Exists(s, "sepl") /\ ~Exists(s, "semo")
  BY <1>2 DEF Exists, Covered
<1> QED
  BY <1>1, <1>3 DEF OnDisk, Kinds

\* After a call the open files are of the theory of obliquity and nutation,
\* or the asteroids' under Moshier's.
LEMMA NutKept ==
  ASSUME NEW c \in Clients, NEW ch \in BOOLEAN, NEW q \in MayAsk(c, ch),
         NEW s, Good(s), NutOK(c, s), s.disk = c.disk, q.ipl # "NUT" => s.lasteph = q.f.eph,
         NEW r, Good(r), Named(s, r, q)
  PROVE  NutOK(c, r)
<1> SUFFICES ASSUME NEW n \in c.asks, n.ipl = "NUT", NEW k \in Kinds, r.fid[k] # 0,
                    r.lasteph # "MOS"
             PROVE  r.lasteph = n.f.eph
  BY DEF NutOK
<1>1. CASE q.ipl = "NUT"
  <2>1. q \in c.asks
    BY <1>1, MayAskFacts
  <2>2. q.f.eph = n.f.eph
    BY <1>1, <2>1, AsksAlike
  <2> QED
    BY <1>1, <2>2 DEF Named, NutOK
<1>2. CASE q.ipl # "NUT"
  <2>1. r.lasteph = q.f.eph /\ s.lasteph = q.f.eph
    BY <1>2 DEF Named
  <2>2. q.f.eph = "SWI" /\ q \in c.asks
    BY <2>1, MayAskFacts
  <2>3. CASE q.ipl # "FICT"
    BY <2>1, <2>2, <2>3, AsksAlike
  <2>4. CASE q.ipl = "FICT" /\ n.f.eph # "SWI"
    <3>1. n.f.eph = "MOS"
      <4>1. n \in Askable
        BY ClientsAssumption
      <4> QED
        BY <2>4, <4>1, AskableFacts DEF Flags
    <3>2. s.fid["seas"] = 0
      BY <2>1, <2>2, <3>1 DEF NutOK, Kinds
    <3>3. r.fid["seas"] = 0 /\ r.disk = c.disk
      BY <2>4, <3>2 DEF Named
    <3>4. \A j \in Kinds : r.fid[j] = 0
      BY <3>1, <3>3, NoPlanetFile
    <3> QED
      BY <3>4
  <2> QED
    BY <2>1, <2>2, <2>3, <2>4
<1> QED
  BY <1>1, <1>2

\* After a call the asteroids' file has its constants, or is left for a call
\* by the theory of the files to close.
LEMMA AsteroidsKept ==
  ASSUME NEW c \in Clients, NEW ch \in BOOLEAN, NEW q \in MayAsk(c, ch),
         NEW s, AsteroidsOK(c, ch, s), q.ipl # "NUT" => s.lasteph = q.f.eph,
         NEW r, Named(s, r, q)
  PROVE  AsteroidsOK(c, ch, r)
<1> SUFFICES ASSUME ~Asteroids(r) PROVE ch /\ r.lasteph = "MOS" /\ NutBySwi(c)
  BY DEF AsteroidsOK
<1>1. ch /\ s.lasteph = "MOS" /\ NutBySwi(c)
  BY DEF Named, AsteroidsOK
<1>2. r.lasteph = s.lasteph
  BY DEF Named
<1> QED
  BY <1>1, <1>2

\* What a call leaves and tells
Tells(r) == r.rc = "OK" => Pure(r.x, r.f.eph)
Called(c, ch, r) ==
  Good(r.s) /\ r.s.disk = c.disk /\ NutOK(c, r.s) /\ AsteroidsOK(c, ch, r.s) /\ Tells(r)

AskedIn(s, a, q) == [s EXCEPT !.save[a].tsave = q.t, !.save[a].ipl = q.ipl]

\* The question that is being answered is noted with the old answer's flags.
LEMMA SavedAs ==
  ASSUME NEW s, Good(s), NEW q \in Askable, q.ipl \in Planets, NEW a \in Areas,
         NEW r, r = AskedIn(s, a, q)
  PROVE  /\ Good(r) /\ r.fid = s.fid /\ r.disk = s.disk /\ r.lasteph = s.lasteph
         /\ Asteroids(s) => Asteroids(r)
<1>1. s \in Swed
  BY DEF Good, FilesOK
<1>2. PICK o \in SaveType : o = s.save[a]
  BY <1>1 DEF Swed
<1>3. PICK v : v = [o EXCEPT !.tsave = q.t, !.ipl = q.ipl]
  OBVIOUS
<1>4. v \in SaveType /\ v.flags = o.flags /\ v.x = o.x
  BY <1>2, <1>3, AskableFacts DEF SaveType, Day
<1>5. v.flags \in Flags => Pure(v.x, v.flags.eph)
  BY <1>2, <1>4 DEF Good, SavesOK
<1>6. r = SetSave(s, a, v)
  BY <1>1, <1>2, <1>3 DEF SetSave, Swed, AskedIn
<1> QED
  BY <1>4, <1>5, <1>6, SaveIt

AnswerIn(m, a) == [m EXCEPT !.s.save[a].flags = m.f, !.s.save[a].x = m.x]

LEMMA AnswerSaved ==
  ASSUME NEW m, Answer(m), NEW a \in Areas,
         NEW r, r = AnswerIn(m, a)
  PROVE  /\ Good(r.s) /\ r.rc = m.rc /\ r.f = m.f /\ r.x = m.x
         /\ r.s.fid = m.s.fid /\ r.s.disk = m.s.disk /\ r.s.lasteph = m.s.lasteph
         /\ Asteroids(m.s) => Asteroids(r.s)
<1>1. Good(m.s) /\ m.s \in Swed
  BY DEF Answer, Good, FilesOK
<1>2. PICK o \in SaveType : o = m.s.save[a]
  BY <1>1 DEF Swed
<1>3. PICK v : v = [o EXCEPT !.flags = m.f, !.x = m.x]
  OBVIOUS
<1>4. m.f \in AnyFlags /\ m.x \in PosType
  BY DEF Answer
<1>5. v \in SaveType /\ v.flags = m.f /\ v.x = m.x
  BY <1>2, <1>3, <1>4 DEF SaveType
<1>6. v.flags \in Flags => Pure(v.x, v.flags.eph)
  BY <1>5 DEF Answer
<1>7. PICK w : w = SetSave(m.s, a, v)
  OBVIOUS
<1>8. /\ Good(w) /\ w.save[a] = v
      /\ w.fid = m.s.fid /\ w.path = m.s.path /\ w.disk = m.s.disk
      /\ w.lasteph = m.s.lasteph /\ (Asteroids(m.s) => Asteroids(w))
  BY <1>1, <1>5, <1>6, <1>7, SaveIt
<1>9. w = [m.s EXCEPT !.save[a].flags = m.f, !.save[a].x = m.x]
  BY <1>1, <1>2, <1>3, <1>7 DEF SetSave, Swed
<1>10. PICK u : u = m.s
  OBVIOUS
<1>11. m = [s |-> u, rc |-> m.rc, f |-> m.f, x |-> m.x]
  BY <1>10 DEF Answer, Outcome
<1>12. r = Outcome(w, m.rc, m.f, m.x)
  <2>1. PICK u1 : u1 = [u EXCEPT !.save[a].flags = m.f]
    OBVIOUS
  <2>2. PICK m1 : m1 = [m EXCEPT !.s = u1]
    OBVIOUS
  <2>3. m1 = [s |-> u1, rc |-> m.rc, f |-> m.f, x |-> m.x]
    BY <1>11, <2>2
  <2>4. r = [m1 EXCEPT !.s.save[a].x = m.x]
    BY <1>10, <2>1, <2>2 DEF AnswerIn
  <2>5. PICK u2 : u2 = [u1 EXCEPT !.save[a].x = m.x]
    OBVIOUS
  <2>6. r = [m1 EXCEPT !.s = u2]
    BY <2>3, <2>4, <2>5
  <2>7. u2 = w
    BY <1>9, <1>10, <2>1, <2>5
  <2> QED
    BY <2>3, <2>6, <2>7 DEF Outcome
<1> QED
  BY <1>8, <1>12 DEF Outcome

\* swe_calc: from the save area, or computed and kept there.
LEMMA SweCalc ==
  ASSUME NEW c \in Clients, NEW ch \in BOOLEAN, NEW q \in MayAsk(c, ch), q.ipl \in Planets,
         NEW s, Good(s), s.disk = c.disk, NutOK(c, s), AsteroidsOK(c, ch, s),
         NEW r, r = swe_calc(s, q)
  PROVE  Called(c, ch, r)
<1>0. q \in Askable
  BY MayAskFacts
<1>1. PICK i : i = swi_init_swed_if_start(s)
  OBVIOUS
<1>2. Good(i) /\ i.disk = s.disk /\ (i = s \/ Blank(i))
  BY <1>1, InitSwed
<1>3. NutOK(c, i) /\ AsteroidsOK(c, ch, i)
  BY <1>2, BlankOK
<1>4. PICK s1 : s1 = switch_ephemeris(i, q)
  OBVIOUS
<1>5. /\ Good(s1) /\ s1.disk = i.disk /\ NutOK(c, s1) /\ AsteroidsOK(c, ch, s1)
      /\ q.ipl # "NUT" => s1.lasteph = q.f.eph
      /\ q.ipl = "CHIRON" => Asteroids(s1)
  BY <1>2, <1>3, <1>4, SwitchEphemeris
<1>6. PICK a \in Areas : a = AreaOf(q.ipl)
  BY DEF AreaOf, Areas
<1>7. CASE kept(s1, q)
  <2>1. r = Outcome(s1, "OK", s1.save[a].flags, s1.save[a].x)
    BY <1>1, <1>4, <1>6, <1>7 DEF swe_calc, Then
  <2>2. s1.save[a].flags = q.f
    BY <1>6, <1>7 DEF kept
  <2>3. r.s = s1 /\ r.f = q.f /\ r.x = s1.save[a].x
    BY <2>1, <2>2 DEF Outcome
  <2>4. Pure(r.x, r.f.eph)
    BY <1>0, <1>5, <2>2, <2>3, AskableFacts DEF Good, SavesOK
  <2> QED
    BY <1>2, <1>5, <2>3, <2>4 DEF Called, Tells
<1>8. CASE ~kept(s1, q)
  <2>1. PICK s2 : s2 = AskedIn(s1, a, q)
    OBVIOUS
  <2>2. /\ Good(s2) /\ s2.fid = s1.fid /\ s2.disk = s1.disk /\ s2.lasteph = s1.lasteph
        /\ Asteroids(s1) => Asteroids(s2)
    BY <1>0, <1>5, <2>1, SavedAs
  <2>3. PICK m : m = swecalc(s2, q)
    OBVIOUS
  <2>4. Answer(m) /\ Named(s2, m.s, q)
    BY <1>0, <1>5, <2>2, <2>3, Swecalc
  <2>5. r = AnswerIn(m, a)
    BY <1>1, <1>4, <1>6, <1>8, <2>1, <2>3 DEF swe_calc, Then, AnswerIn, AskedIn
  <2>6. /\ Good(r.s) /\ r.rc = m.rc /\ r.f = m.f /\ r.x = m.x
        /\ r.s.fid = m.s.fid /\ r.s.disk = m.s.disk /\ r.s.lasteph = m.s.lasteph
        /\ Asteroids(m.s) => Asteroids(r.s)
    BY <2>4, <2>5, AnswerSaved
  <2>7. Named(s1, r.s, q)
    BY <2>2, <2>4, <2>6 DEF Named
  <2>8. s1.disk = c.disk
    BY <1>2, <1>5
  <2>9. NutOK(c, r.s)
    BY <1>5, <2>6, <2>7, <2>8, NutKept
  <2>10. AsteroidsOK(c, ch, r.s)
    BY <1>5, <2>7, AsteroidsKept
  <2>11. Tells(r)
    BY <2>4, <2>6 DEF Tells, Answer
  <2> QED
    BY <2>6, <2>7, <2>8, <2>9, <2>10, <2>11 DEF Called, Named
<1> QED
  BY <1>7, <1>8

\* swi_fixstar_calc_from_record: a star is data of no theory, its earth
\* Moshier's.
StarPos(data, e1, e2, f) ==
  [NoPos EXCEPT !.true = data, !.obs = e2.x \cup deflecting(e2.s),
                !.app = e1.x, !.spd = f.speed, !.oec = e2.s.oec,
                !.nut = e2.s.nut, !.nutv = IF f.speed THEN e2.s.nutv ELSE 0]
StarEnd(s, data, t, f, f1) ==
  Then(BaryLooks(s, LT(t), f1), LAMBDA e1 :
  Then(BarySaves(e1.s, t, f1), LAMBDA e2 :
  IF e1.rc # "OK" \/ e2.rc # "OK" THEN Outcome(e2.s, "ERR", f, NoPos)
  ELSE Outcome(e2.s, "OK", f, StarPos(data, e1, e2, f))))
StarOf(s, data, t, f) == swi_fixstar_calc_from_record(s, data, t, f)

LEMMA StarFrom ==
  ASSUME NEW s, Good(s), NEW data \in SUBSET StarData, NEW t \in Dates,
         NEW f \in Flags, f.eph = "MOS", NEW r, r = StarOf(s, data, t, f)
  PROVE  /\ Good(r.s) /\ r.s.disk = s.disk /\ r.s.lasteph = f.eph
         /\ r.f = f /\ Tells(r) /\ (Asteroids(s) => Asteroids(r.s))
<1>1. PICK f1 : f1 = [f EXCEPT !.speed = TRUE]
  OBVIOUS
<1>2. f1 \in Flags /\ f1.eph = "MOS"
  BY <1>1 DEF Flags
<1>3. PICK s1 : s1 = IF s.lasteph = f.eph THEN s ELSE ClearedOf(s, f.eph)
  OBVIOUS
<1>4. /\ Good(s1) /\ s1.disk = s.disk /\ s1.lasteph = f.eph
      /\ Asteroids(s) => Asteroids(s1)
  <2>1. CASE s.lasteph = f.eph
    BY <1>3, <2>1
  <2>2. CASE s.lasteph # f.eph
    <3>1. PICK e \in Theories : e = f.eph
      BY DEF Theories
    <3>2. s1 = ClearedOf(s, e) /\ s \in Swed
      BY <1>3, <2>2, <3>1 DEF Good, FilesOK
    <3>3. Blank(s1) /\ s1.lasteph = e /\ s1.disk = s.disk /\ s1.path = s.path /\ s1.last = s.last
      BY <3>2, Cleared
    <3> QED
      BY <3>1, <3>3, BlankGood
  <2> QED
    BY <2>1, <2>2
<1>5. PICK s2 : s2 = CheckedOf(s1, t, f1)
  OBVIOUS
<1>6. Good(s2) /\ Alike(s1, s2) /\ s2.oec = t /\ (Asteroids(s1) => Asteroids(s2))
  BY <1>2, <1>4, <1>5, Checked
<1>7. PICK e1 : e1 = BaryLooks(s2, LT(t), f1)
  OBVIOUS
<1>8. PICK g : g = Effective(s2, f1)
  OBVIOUS
<1>9. LT(t) \in AllDates /\ s2.oec \in Dates
  BY <1>6, DateFacts
<1>10. /\ Did(s2, e1.s) /\ SameSlots(s2, e1.s, Slots) /\ e1.rc = "OK"
       /\ f1.eph = "MOS" => e1.s.fid = s2.fid
       /\ By(e1.x, g.eph) /\ By(e1.sun, g.eph)
       /\ e1.x \in SUBSET Evals /\ e1.sun \in SUBSET Evals
  BY <1>2, <1>6, <1>7, <1>8, <1>9, BaryLooksIs
<1>11. g.eph = "MOS"
  BY <1>2, <1>8, EffectiveFacts
<1>12. PICK e2 : e2 = BarySaves(e1.s, t, f1)
  OBVIOUS
<1>13. PICK h : h = Effective(e1.s, f1)
  OBVIOUS
<1>14. Good(e1.s) /\ e1.s.oec = t
  BY <1>6, <1>10 DEF Did, Keeps
<1>15. /\ Did(e1.s, e2.s) /\ e2.rc = "OK"
       /\ f1.eph = "MOS" => e2.s.fid = e1.s.fid
       /\ By(e2.x, h.eph) /\ e2.x \in SUBSET Evals /\ HasTheory(e2.s, "earth", h)
  BY <1>2, <1>12, <1>13, <1>14, BarySavesIs
<1>16. h.eph = "MOS"
  BY <1>2, <1>13, EffectiveFacts
<1>17. Good(e2.s) /\ Keeps(s2, e2.s)
  BY <1>10, <1>15 DEF Did, Keeps
<1>18. By(deflecting(e2.s), "MOS")
  BY <1>15, <1>16 DEF deflecting, HasTheory, By
<1>19. PICK pos : pos = StarPos(data, e1, e2, f)
  OBVIOUS
<1>20. pos.true = data /\ pos.obs = e2.x \cup deflecting(e2.s) /\ pos.app = e1.x
  BY <1>19 DEF StarPos, NoPos
<1>21. Pure(pos, "MOS")
  <2>1. By(data, "MOS")
    BY DEF StarData, By
  <2>2. By(e2.x \cup deflecting(e2.s), "MOS")
    BY <1>15, <1>16, <1>18, ByBoth
  <2> QED
    BY <1>10, <1>11, <1>20, <2>1, <2>2 DEF Pure
<1>22. r = Outcome(e2.s, "OK", f, pos)
  <2>1. e1.rc = "OK" /\ e2.rc = "OK"
    BY <1>10, <1>15
  <2>2. r = StarEnd(s2, data, t, f, f1)
    BY <1>1, <1>3, <1>5
    DEF StarOf, StarEnd, StarPos, swi_fixstar_calc_from_record, Then, ClearedOf, CheckedOf,
        BaryLooks, BarySaves
  <2> QED
    BY <1>7, <1>12, <1>19, <2>1, <2>2 DEF StarEnd, Then
<1>23. r.s = e2.s /\ r.f = f /\ r.x = pos
  BY <1>22 DEF Outcome
<1> QED
  BY <1>4, <1>6, <1>17, <1>21, <1>23 DEF Tells, Keeps, Alike

\* star_record: the record of the last star is its own.
LEMMA StarRecord ==
  ASSUME NEW s, Good(s), NEW b \in Stars, NEW r, r = star_record(s, b)
  PROVE  /\ r.s = s /\ r.rc \in {"OK", "ERR"} /\ r.x \in SUBSET StarData
<1>1. NoSeg \in SegType
  BY DEF NoSeg, SegType
<1>2. Record(b) \in SUBSET StarData
  BY <1>1 DEF Record, Eval, StarData
<1>3. s.last.data \in SUBSET StarData
  BY DEF Good, FilesOK, Swed
<1> QED
  BY <1>2, <1>3 DEF star_record, swi_fixstar_load_record, Result

LastOf(s, b, x) == [s EXCEPT !.last = [star |-> b, data |-> x]]

LEMMA LastIs ==
  ASSUME NEW s, Good(s), NEW b \in Stars, NEW x \in SUBSET StarData, NEW r, r = LastOf(s, b, x)
  PROVE  Good(r) /\ r.disk = s.disk /\ (Asteroids(s) => Asteroids(r))
<1>1. s \in Swed
  BY DEF Good, FilesOK
<1>2. [star |-> b, data |-> x] \in [star : Stars \cup {"none"}, data : SUBSET StarData]
  OBVIOUS
<1>3. PICK l : l = [star |-> b, data |-> x]
  OBVIOUS
<1>4. r = [s EXCEPT !.last = l]
  BY <1>3 DEF LastOf
<1>5. /\ r \in Swed /\ r.pl = s.pl /\ r.save = s.save /\ r.fid = s.fid
      /\ r.path = s.path /\ r.disk = s.disk /\ r.lasteph = s.lasteph
  BY <1>1, <1>2, <1>3, <1>4 DEF Swed
<1> QED
  BY <1>5, GoodSame

\* swe_fixstar: stars are asked by Moshier's theory.
LEMMA SweFixstar ==
  ASSUME NEW c \in Clients, NEW ch \in BOOLEAN, NEW q \in MayAsk(c, ch), q.ipl \in Stars,
         NEW s, Good(s), s.disk = c.disk, NutOK(c, s), AsteroidsOK(c, ch, s),
         NEW r, r = swe_fixstar(s, q)
  PROVE  Called(c, ch, r)
<1>0. q \in Askable /\ q.f.eph = "MOS"
  BY MayAskFacts
<1>1. PICK i : i = swi_init_swed_if_start(s)
  OBVIOUS
<1>2. Good(i) /\ i.disk = s.disk /\ (i = s \/ Blank(i))
  BY <1>1, InitSwed
<1>3. NutOK(c, i) /\ AsteroidsOK(c, ch, i)
  BY <1>2, BlankOK
<1>4. PICK b \in Stars : b = q.ipl
  OBVIOUS
<1>5. PICK d : d = star_record(i, b)
  OBVIOUS
<1>6. d.s = i /\ d.rc \in {"OK", "ERR"} /\ d.x \in SUBSET StarData
  BY <1>2, <1>5, StarRecord
<1>7. CASE d.rc # "OK"
  <2>1. r = Outcome(i, "ERR", q.f, NoPos)
    BY <1>1, <1>4, <1>5, <1>6, <1>7 DEF swe_fixstar, Then
  <2>2. r.s = i /\ r.rc = "ERR"
    BY <2>1 DEF Outcome
  <2> QED
    BY <1>2, <1>3, <2>2 DEF Called, Tells
<1>8. CASE d.rc = "OK"
  <2>1. PICK l : l = LastOf(i, b, d.x)
    OBVIOUS
  <2>2. Good(l) /\ l.disk = i.disk /\ (Asteroids(i) => Asteroids(l))
    BY <1>2, <1>6, <2>1, LastIs
  <2>3. PICK f \in Flags : f = q.f
    BY <1>0, AskableFacts
  <2>4. PICK t \in Dates : t = q.t
    BY <1>0, AskableFacts
  <2>5. r = StarOf(l, d.x, t, f)
    BY <1>1, <1>4, <1>5, <1>6, <1>8, <2>1, <2>3, <2>4 DEF swe_fixstar, Then, StarOf, LastOf
  <2>6. f.eph = "MOS"
    BY <1>0, <2>3
  <2>7. /\ Good(r.s) /\ r.s.disk = l.disk /\ r.s.lasteph = f.eph
        /\ r.f = f /\ Tells(r) /\ (Asteroids(l) => Asteroids(r.s))
    BY <1>6, <2>2, <2>5, <2>6, StarFrom
  <2>8. NutOK(c, r.s)
    BY <2>6, <2>7 DEF NutOK
  <2>9. AsteroidsOK(c, ch, r.s)
    BY <1>3, <2>2, <2>6, <2>7 DEF AsteroidsOK
  <2> QED
    BY <1>2, <2>2, <2>7, <2>8, <2>9 DEF Called
<1> QED
  BY <1>7, <1>8

\* swe_set_ephe_path: only the lunar file may be open after it.
LEMMA SetPathKeepsNut ==
  ASSUME NEW c \in Clients, NEW r, Good(r), r.disk = c.disk, r.lasteph = "SWI",
         r.fid["seas"] = 0
  PROVE  NutOK(c, r)
<1> SUFFICES ASSUME NEW n \in c.asks, n.ipl = "NUT", NEW k \in Kinds, r.fid[k] # 0
             PROVE  r.lasteph = n.f.eph
  BY DEF NutOK
<1>1. n \in Askable
  BY ClientsAssumption
<1>2. n.f.eph \in {"MOS", "SWI"}
  BY <1>1, AskableFacts DEF Flags
<1>3. n.f.eph # "MOS"
  BY NoPlanetFile
<1> QED
  BY <1>2, <1>3

-----------------------------------------------------------------------------
(* The theorems.                                                            *)

LEMMA ClientDisk ==
  ASSUME NEW c \in Clients PROVE c.disk \in Disks
BY ClientsAssumption DEF Disks

LEMMA InitIInv == Init => IInv
<1> SUFFICES ASSUME Init PROVE IInv
  OBVIOUS
<1>1. client \in Clients /\ client.disk \in Disks /\ chosen \in BOOLEAN
  BY ClientDisk DEF Init
<1>2. swed = Zero(client.disk)
  BY DEF Init
<1>3. Blank(swed) /\ swed.disk = client.disk
  BY <1>1, <1>2, ZeroIsBlank
<1>4. Good(swed) /\ NutOK(client, swed) /\ AsteroidsOK(client, chosen, swed)
  BY <1>3, BlankOK
<1>5. out.a.rc = "none"
  BY DEF Init, NoAnswer
<1>6. FlagTellsSource
  BY <1>5 DEF FlagTellsSource
<1> QED
  BY <1>1, <1>3, <1>4, <1>6 DEF IInv

\* A call that leaves the structure good and tells the theory of its answer
\* keeps the invariant.
LEMMA AskKeeps ==
  ASSUME IInv, NEW q, NEW r, Ask(q, r), Called(client, chosen, r)
  PROVE  IInv'
<1>1. /\ swed' = r.s /\ client' = client /\ chosen' = chosen
      /\ out' = [q |-> q, a |-> Told(r)]
  BY DEF Ask
<1>2. client' \in Clients /\ chosen' \in BOOLEAN /\ swed'.disk = client'.disk
  BY <1>1 DEF IInv, Called
<1>3. Good(swed') /\ NutOK(client', swed') /\ AsteroidsOK(client', chosen', swed')
  BY <1>1 DEF Called
<1>4. FlagTellsSource'
  <2>1. PICK a : a = Told(r)
    OBVIOUS
  <2>2. out'.a = a /\ a.rc = r.rc /\ a.eph = r.f.eph /\ a.x = r.x
    BY <1>1, <2>1 DEF Told
  <2>3. a.rc = "OK" => Pure(a.x, a.eph)
    BY <2>2 DEF Called, Tells
  <2> QED
    BY <2>2, <2>3 DEF FlagTellsSource, Pure, By
<1> QED
  BY <1>2, <1>3, <1>4 DEF IInv

LEMMA SetEphePathKeeps ==
  ASSUME IInv, NEW p \in Paths, SetEphePath(p)
  PROVE  IInv'
<1>1. /\ swed' = swe_set_ephe_path(swed, p) /\ client' = client /\ chosen' = chosen
      /\ out' = [q |-> NoQuestion, a |-> NoAnswer]
  BY DEF SetEphePath
<1>2. Good(swed) /\ client \in Clients /\ chosen \in BOOLEAN /\ swed.disk = client.disk
  BY DEF IInv
<1>3. PICK r : r = swed'
  OBVIOUS
<1>4. /\ Good(r) /\ r.path = p /\ r.lasteph = "SWI" /\ r.disk = swed.disk
      /\ r.fid["seas"] = 0 /\ Asteroids(r)
  BY <1>1, <1>2, <1>3, SetsPath
<1>5. NutOK(client, r) /\ AsteroidsOK(client, chosen, r)
  BY <1>2, <1>4, SetPathKeepsNut DEF AsteroidsOK
<1>6. out'.a.rc = "none"
  BY <1>1 DEF NoAnswer
<1>7. FlagTellsSource'
  BY <1>6 DEF FlagTellsSource
<1> QED
  BY <1>1, <1>2, <1>3, <1>4, <1>5, <1>7 DEF IInv

LEMMA NextIInv == IInv /\ [Next]_vars => IInv'
<1> SUFFICES ASSUME IInv, [Next]_vars PROVE IInv'
  OBVIOUS
<1>1. /\ client \in Clients /\ chosen \in BOOLEAN /\ Good(swed) /\ swed.disk = client.disk
      /\ NutOK(client, swed) /\ AsteroidsOK(client, chosen, swed)
  BY DEF IInv
<1>2. ASSUME NEW p \in Paths, SetEphePath(p) PROVE IInv'
  BY <1>2, SetEphePathKeeps
<1>3. ASSUME ChooseTheory PROVE IInv'
  <2>1. /\ chosen' = TRUE /\ swed' = swed /\ client' = client /\ out' = out
    BY <1>3 DEF ChooseTheory
  <2>2. AsteroidsOK(client, TRUE, swed)
    BY <1>1 DEF AsteroidsOK
  <2>3. FlagTellsSource'
    BY <2>1 DEF IInv, FlagTellsSource
  <2> QED
    BY <1>1, <2>1, <2>2, <2>3 DEF IInv
<1>4. ASSUME NEW q \in AskedNow, Calc(q) PROVE IInv'
  <2>1. PICK r : r = swe_calc(swed, q)
    OBVIOUS
  <2>2. Ask(q, r) /\ q.ipl \in Planets
    BY <1>4, <2>1 DEF Calc
  <2>3. q \in MayAsk(client, chosen)
    BY DEF AskedNow, MayAsk
  <2>4. Called(client, chosen, r)
    BY <1>1, <2>1, <2>2, <2>3, SweCalc
  <2> QED
    BY <2>2, <2>4, AskKeeps
<1>5. ASSUME NEW q \in AskedNow, Fixstar(q) PROVE IInv'
  <2>1. PICK r : r = swe_fixstar(swed, q)
    OBVIOUS
  <2>2. Ask(q, r) /\ q.ipl \in Stars
    BY <1>5, <2>1 DEF Fixstar
  <2>3. q \in MayAsk(client, chosen)
    BY DEF AskedNow, MayAsk
  <2>4. Called(client, chosen, r)
    BY <1>1, <2>1, <2>2, <2>3, SweFixstar
  <2> QED
    BY <2>2, <2>4, AskKeeps
<1>6. CASE UNCHANGED vars
  BY <1>6 DEF vars, IInv, FlagTellsSource
<1> QED
  BY <1>2, <1>3, <1>4, <1>5, <1>6 DEF Next

LEMMA Invariant == Spec => []IInv
<1>1. Init => IInv
  BY InitIInv
<1>2. IInv /\ [Next]_vars => IInv'
  BY NextIInv
<1> QED
  BY <1>1, <1>2, PTL DEF Spec

LEMMA TypedSwed == IInv => TypeOK
<1> SUFFICES ASSUME IInv PROVE TypeOK
  OBVIOUS
<1>1. swed \in Swed /\ client \in Clients /\ chosen \in BOOLEAN /\ swed.disk = client.disk
  BY DEF IInv, Good, FilesOK
<1>2. ASSUME NEW b \in Slots
      PROVE  /\ swed.pl[b].teval \in Dates \cup {0}
             /\ swed.pl[b].iephe \in {"none", "MOS", "SWI"}
             /\ swed.pl[b].xflgs \in Flags \cup {NoFlags, Renew}
             /\ {e.t : e \in swed.pl[b].x} \subseteq AllDates
  <2>1. PICK p \in PlanType : p = swed.pl[b]
    BY <1>1 DEF Swed
  <2>2. p.x \subseteq Evals /\ \A e \in Evals : e.t \in AllDates
    BY DEF PlanType, Evals
  <2>3. {e.t : e \in p.x} \subseteq AllDates
    BY <2>2
  <2> QED
    BY <2>1, <2>3 DEF PlanType, Day, AnyFlags
<1>3. \A a \in Areas : /\ swed.save[a].tsave \in Dates \cup {0}
                       /\ swed.save[a].flags \in Flags \cup {NoFlags, Renew}
  BY <1>1 DEF Swed, SaveType, Day, AnyFlags
<1>4. SwedType
  BY <1>1, <1>2, <1>3 DEF SwedType, Swed, Day
<1> QED
  BY <1>1, <1>4 DEF TypeOK

\* Whatever is asked in whatever order, the structure of the thread (struct
\* swe_data in sweph.h) holds values of its types, and the directory's files
\* are those the program was started with.
THEOREM SwedHasItsTypes == Spec => []TypeOK
BY Invariant, TypedSwed, PTL

\* Whatever the program has asked before, in whatever order and by whichever
\* theory, no call it may make next reads a file without its constants: no
\* read of a segment divides by a segment length of zero (get_new_segment,
\* read_const in sweph.c).  Obliquity and nutation between two theories,
\* which clear the slots and leave the files open (sweph.c:389), included.
THEOREM OpenFilesHaveConstants == Spec => []OpenFileHasConstants
<1>1. IInv => OpenFileHasConstants
  <2> SUFFICES ASSUME IInv, NEW q \in AskedNow, NEW b \in Reads(q)
               PROVE  HasConstants(switch_ephemeris(swed, q), b)
    BY DEF OpenFileHasConstants
  <2>1. /\ client \in Clients /\ chosen \in BOOLEAN /\ Good(swed)
        /\ NutOK(client, swed) /\ AsteroidsOK(client, chosen, swed)
    BY DEF IInv
  <2>2. q \in MayAsk(client, chosen)
    BY DEF AskedNow, MayAsk
  <2>3. q \in Askable /\ q.f.eph \in {"MOS", "SWI"}
    BY <2>1, <2>2, MayAskFacts
  <2>4. PICK r : r = switch_ephemeris(swed, q)
    OBVIOUS
  <2>5. /\ Good(r)
        /\ q.ipl # "NUT" /\ (q.ipl = "CHIRON" \/ q.f.eph = "SWI") => Asteroids(r)
    BY <2>1, <2>2, <2>4, SwitchEphemeris
  <2>6. /\ q.ipl # "NUT" /\ (q.ipl = "CHIRON" \/ q.f.eph = "SWI")
        /\ b \in Bodies \ {"fict"}
    <3>1. CASE q.ipl = "NUT"
      BY <3>1 DEF Reads
    <3>2. CASE q.ipl # "NUT" /\ q.f.eph = "SWI"
      BY <3>2 DEF Reads
    <3>3. CASE q.ipl = "CHIRON" /\ q.f.eph = "MOS"
      BY <3>3 DEF Reads, Bodies
    <3>4. CASE q.ipl \notin {"NUT", "CHIRON"} /\ q.f.eph = "MOS"
      BY <3>4 DEF Reads
    <3> QED
      BY <2>3, <3>1, <3>2, <3>3, <3>4
  <2>7. HasConstants(r, b)
    BY <2>5, <2>6 DEF Good, FilesOK, Consts, Asteroids
  <2> QED
    BY <2>4, <2>7
<1> QED
  BY <1>1, Invariant, PTL

\* A position in a save area is of the date and theory the area names, for
\* every order of calls by both theories, at dates and light-time dates
\* (pldat in sweph, sweplan, swi_moshplan, lunar_osc_elem).
THEOREM SavedPositionsAreOfTheirDate == Spec => []PositionIsOfItsDate
<1>1. IInv => PositionIsOfItsDate
  <2> SUFFICES ASSUME IInv, NEW b \in Major, swed.pl[b].teval # 0, NEW e \in swed.pl[b].x
               PROVE  e.t = swed.pl[b].teval /\ e.src \in {swed.pl[b].iephe, "none"}
    BY DEF PositionIsOfItsDate, Major
  <2>1. DatedOK(swed, swed.pl[b])
    BY DEF IInv, Good, SlotsOK
  <2> QED
    BY <2>1 DEF DatedOK, NotByTheory
<1> QED
  BY <1>1, Invariant, PTL

\* "The caller learns from the return flag which ephemeris was used"
\* (sweph.c:624): whether the answer is computed, kept in a slot, kept in
\* swed.savedat or fell back to Moshier's theory, all planets in it are of
\* the theory the returned flags name.
THEOREM FlagsTellTheSource == Spec => []FlagTellsSource
<1>1. IInv => FlagTellsSource
  BY DEF IInv
<1> QED
  BY <1>1, Invariant, PTL
=============================================================================
