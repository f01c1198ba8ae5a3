------------------------------- MODULE EphData -------------------------------
(***************************************************************************)
(* The data side of the Swiss Ephemeris library (src/ext/ext64): the       *)
(* structure swed one thread of the process owns, the ephemeris files it   *)
(* keeps open, and the functions that put positions into its save areas.   *)
(*                                                                         *)
(* A position is the set of the evaluations it was made from: which body,  *)
(* by which theory, for which date, with which Chebyshev coefficients.     *)
(* Every C function is an operator from the structure to a result          *)
(* [s |-> the structure after it, rc |-> its return code, x |-> what it    *)
(* returned], so that the order of its effects is the code's.              *)
(***************************************************************************)
EXTENDS Naturals, FiniteSets

CONSTANTS
    Dates,        \* the dates a caller asks for
    J2000,        \* the date swe_set_ephe_path() tries the lunar file with
    EraOf,        \* the era a date's file is named after (swi_gen_filename)
    SegOf,        \* the Chebyshev segment of a date within its file
    Paths,        \* directories with (or without) ephemeris files
    DefaultPath   \* SE_EPHE_PATH

\* The date at which the light left the body.
LT(t) == t - 1
AllDates == Dates \cup {LT(t) : t \in Dates}

\* A light-time date never is, to the last bit, a date somebody asks for.
\* All dates are within the limits of Moshier's theory and of Chiron's orbit
\* (sweph.c:704,1051,1627,1728).
ASSUME DatesAssumption ==
    /\ Dates \subseteq Nat \ {0, 1}
    /\ J2000 \in Dates
    /\ \A t \in Dates : LT(t) \notin Dates
    /\ EraOf \in [AllDates -> Nat \ {0}]
    /\ SegOf \in [AllDates -> Nat \ {0}]
    /\ DefaultPath \in Paths

-----------------------------------------------------------------------------
\* The slots of swed.pldat and swed.nddat, and the file of each body.
Bodies == {"earth", "sunbary", "moon", "mars", "chiron", "fict"}
Slots  == Bodies \cup {"mean", "node", "apog"}
Kinds  == {"sepl", "semo", "seas"}
\* The star catalogue and the list of fictitious bodies: text, of no date.
Texts  == {"sefstars", "seorbel"}
FileOf(b) == IF b = "moon" THEN "semo" ELSE IF b = "chiron" THEN "seas" ELSE "sepl"

\* The flags of a call; the value 0 of a cleared slot; the value -1, which
\* no call equals but which has the speed bit on.
Flags   == [eph : {"MOS", "SWI"}, speed : BOOLEAN, raw : BOOLEAN]
NoFlags == [eph |-> "none", speed |-> FALSE, raw |-> FALSE]
Renew   == [eph |-> "all", speed |-> TRUE, raw |-> TRUE]

\* Coefficients of a segment: the era their constants were read for, the
\* era of the file they were read from, the segment.
NoSeg == [const |-> 0, file |-> 0, seg |-> 0]
Eval(b, src, t, c) == [of |-> b, src |-> src, t |-> t, cof |-> c]

\* What a function of the apparent position writes to xreturn.
NoPos == [true |-> {}, obs |-> {}, app |-> {}, spd |-> FALSE,
          oec |-> 0, nut |-> 0, nutv |-> 0]

NoPlan == [teval |-> 0, iephe |-> "none", xflgs |-> NoFlags,
           x |-> {}, xret |-> NoPos, seg |-> NoSeg, era |-> 0]

\* One statement after the other: r is computed, the rest works with it.
Then(r, Rest(_)) == Rest(r)

Result(s, rc, x) == [s |-> s, rc |-> rc, x |-> x]
\* A result with the earth and the barycentric sun of the same date.
Parts(r, e, sun) == [s |-> r.s, rc |-> r.rc, x |-> r.x, e |-> e, sun |-> sun]

-----------------------------------------------------------------------------
(* Save areas.                                                             *)

\* free_planets() also forgets the answers of swe_calc(), swed.savedat.
NoSave == [ipl |-> "none", tsave |-> 0, flags |-> NoFlags, x |-> NoPos]
free_planets(s) ==
    [s EXCEPT !.pl = [b \in Slots |-> NoPlan],
              !.save = [a \in DOMAIN s.save |-> NoSave]]

close_files(s) == [s EXCEPT !.fid = [k \in Kinds |-> 0]]

\* A position already computed for this date, by this theory; if speed is
\* wanted now it must have been computed with speed.
Saved(s, t, b, f) ==
    /\ s.pl[b].teval = t
    /\ s.pl[b].iephe = "SWI"
    /\ f.speed => s.pl[b].xflgs.speed

Store(s, b, t, x, iephe) ==
    [s EXCEPT !.pl[b].teval = t, !.pl[b].x = x,
              !.pl[b].xflgs = Renew, !.pl[b].iephe = iephe]

-----------------------------------------------------------------------------
(* Files.  s.disk[path][kind] is the set of dates the files of that kind   *)
(* cover; there is a file for each era with such a date.                   *)

Covered(s, k) == s.disk[s.path][k]
Exists(s, k) == Covered(s, k) # {}
InRange(s, k, t) == t \in Covered(s, k) /\ EraOf[t] = s.fid[k]

\* A date beyond the open file closes it, and the body's coefficients go.
drop_file(s, k, t, b) ==
    IF s.fid[k] # 0 /\ ~InRange(s, k, t)
    THEN [s EXCEPT !.fid[k] = 0, !.pl[b].seg = NoSeg]
    ELSE s

\* The constants of every body of the file are read, not only this one's.
read_const(s, k, era) ==
    [s EXCEPT !.fid[k] = era,
              !.pl = [b \in Slots |-> IF b \in Bodies \ {"fict"} /\ FileOf(b) = k
                                      THEN [s.pl[b] EXCEPT !.era = era]
                                      ELSE s.pl[b]]]

swi_fopen(s, k, t) ==
    IF s.fid[k] # 0 THEN Result(s, "OK", {})
    ELSE IF \E d \in Covered(s, k) : EraOf[d] = EraOf[t]
    THEN Result(read_const(s, k, EraOf[t]), "OK", {})
    ELSE Result(s, "NA", {})

\* The segment is found from the constants of the body; without them (their
\* segment length is zero) the read fails, and the file passes for damaged.
get_new_segment(s, k, t, b) ==
    LET c == [const |-> s.pl[b].era, file |-> s.fid[k], seg |-> SegOf[t]]
    IN  IF s.pl[b].era = 0
        THEN Result(free_planets([s EXCEPT !.fid[k] = 0]), "ERR", {})
        ELSE Result([s EXCEPT !.pl[b].seg = c], "OK", {})

SegmentCovers(c, t) == c.const = EraOf[t] /\ c.seg = SegOf[t]

evaluate(s, k, t, b) ==
    Then(IF SegmentCovers(s.pl[b].seg, t)
         THEN Result(s, "OK", {}) ELSE get_new_segment(s, k, t, b), LAMBDA r :
    IF r.rc # "OK" THEN r
    ELSE Result(r.s, "OK", {Eval(b, "SWI", t, r.s.pl[b].seg)}))

from_file(s, k, t, b) ==
    Then(swi_fopen(drop_file(s, k, t, b), k, t), LAMBDA o :
    IF o.rc # "OK" THEN o
    ELSE IF ~InRange(o.s, k, t) THEN Result(o.s, "NA", {})
    ELSE evaluate(o.s, k, t, b))

-----------------------------------------------------------------------------
(* sweph(): one body from its file.  The file has the heliocentric earth   *)
(* in place of the barycentric sun, so the sun takes the barycentric       *)
(* earth-moon centre as well, and lest the earth, which shares its slot,   *)
(* be taken from the save area the slot's date is put to 0 meanwhile.      *)

emb_for_sun(s, t) ==
    LET tsv == s.pl["earth"].teval
        s0  == [s EXCEPT !.pl["earth"].teval = 0]
    IN  Then(IF Saved(s0, t, "earth", [eph |-> "SWI", speed |-> TRUE, raw |-> FALSE])
             THEN Result(s0, "OK", s0.pl["earth"].x)
             ELSE from_file(s0, "sepl", t, "earth"), LAMBDA r :
        IF r.rc # "OK" THEN r
        ELSE [r EXCEPT !.s.pl["earth"].teval = tsv])

with_sun(r, t, b, sun, f) ==
    IF b = "sunbary" /\ r.rc = "OK"
    THEN Then(emb_for_sun(r.s, t), LAMBDA m :
         [m EXCEPT !.x = IF m.rc = "OK" THEN @ \cup r.x ELSE {}])
    ELSE IF b = "chiron" /\ f.eph = "SWI" THEN [r EXCEPT !.x = @ \cup sun]
    ELSE r

sweph(s, t, b, f, sun, do_save) ==
    LET k == FileOf(b)
        iephe(e) == IF k = "seas" THEN e.s.pl["sunbary"].iephe ELSE "SWI"
    IN  IF b # "chiron" /\ Saved(s, t, b, f) THEN Result(s, "OK", s.pl[b].x)
        ELSE Then(with_sun(from_file(s, k, t, b), t, b, sun, f), LAMBDA e :
             IF e.rc = "OK" /\ do_save
             THEN [e EXCEPT !.s = Store(e.s, b, t, e.x, iephe(e))]
             ELSE e)

-----------------------------------------------------------------------------
(* Moshier's theory: no files.  The earth it gives depends on the          *)
(* obliquity in swed.oec (embofs_mosh).                                    *)

Mosh(b, t) == Eval(b, "MOS", t, NoSeg)

swi_moshmoon(s, t, do_save) ==
    IF s.pl["moon"].teval = t /\ s.pl["moon"].iephe = "MOS"
    THEN Result(s, "OK", s.pl["moon"].x)
    ELSE Result(IF do_save THEN Store(s, "moon", t, {Mosh("moon", t)}, "MOS") ELSE s,
                "OK", {Mosh("moon", t)})

\* The earth from the centre of earth and moon, in the obliquity at hand.
embofs_mosh(s, t) == {Mosh("earth", t), Eval("oec", "none", s.oec, NoSeg)}

mosh_earth(s, t, do_save) ==
    LET x == embofs_mosh(s, t)
    IN  IF s.pl["earth"].teval = t /\ s.pl["earth"].iephe = "MOS"
        THEN Result(s, "OK", s.pl["earth"].x)
        ELSE Result(IF do_save THEN Store(s, "earth", t, x, "MOS") ELSE s, "OK", x)

\* The result's x is the planet, its e the earth.
swi_moshplan(s, t, b, do_save) ==
    Then(mosh_earth(s, t, do_save), LAMBDA e :
    Parts(IF b = "earth" THEN e
          ELSE IF e.s.pl[b].teval = t /\ e.s.pl[b].iephe = "MOS"
          THEN Result(e.s, "OK", e.s.pl[b].x)
          ELSE Result(IF do_save THEN Store(e.s, b, t, {Mosh(b, t)}, "MOS") ELSE e.s,
                      "OK", {Mosh(b, t)}),
          e.x, {}))

-----------------------------------------------------------------------------
(* sweplan(): the barycentric sun, the moon, the earth and the planet, in  *)
(* that order, each from its save area where it can be.  The callers that  *)
(* save and the ones that ask for the sun and the earth of a light-time    *)
(* date want all four.                                                     *)

saved_or(s, t, b, f, do_save) ==
    IF Saved(s, t, b, f) THEN Result(s, "OK", s.pl[b].x)
    ELSE sweph(s, t, b, f, {}, do_save)

\* With no lunar file the moon is Moshier's; a date beyond an open file is
\* not noticed.
moon_of(s, t, f, do_save) ==
    Then(saved_or(s, t, "moon", f, do_save), LAMBDA r :
    IF r.rc # "NA" THEN r
    ELSE IF r.s.fid["semo"] = 0 THEN swi_moshmoon(r.s, t, do_save)
    ELSE Result(r.s, "OK", r.x))

\* The earth is the centre of earth and moon, less the moon.
earth_of(s, t, f, do_save, moon) ==
    IF Saved(s, t, "earth", f) THEN Result(s, "OK", s.pl["earth"].x)
    ELSE Then(sweph(s, t, "earth", f, {}, do_save), LAMBDA r :
         IF r.rc # "OK" THEN r
         ELSE Result(IF do_save THEN [r.s EXCEPT !.pl["earth"].x = r.x \cup moon] ELSE r.s,
                     "OK", r.x \cup moon))

\* Mutant: the position for a light-time date goes to the save area, too.
planet_of_InSlot(s, t, b, f, do_save, sun) ==
    IF Saved(s, t, b, f) THEN Result(s, "OK", s.pl[b].x)
    ELSE Then(sweph(s, t, b, f, {}, do_save), LAMBDA r :
         IF r.rc # "OK" THEN r
         ELSE Result([r.s EXCEPT !.pl[b].x = r.x \cup sun], "OK", r.x \cup sun))

\* A planet is heliocentric on its file and made barycentric here.  (From the
\* save area it is not copied for the caller; the dates of those who want a
\* copy are light-time dates, which are in no save area.)
planet_of(s, t, b, f, do_save, sun) ==
    IF Saved(s, t, b, f) THEN Result(s, "OK", s.pl[b].x)
    ELSE Then(sweph(s, t, b, f, {}, do_save), LAMBDA r :
         IF r.rc # "OK" THEN r
         ELSE Result(IF do_save THEN [r.s EXCEPT !.pl[b].x = r.x \cup sun] ELSE r.s,
                     "OK", r.x \cup sun))

sweplan(s, t, b, f, do_save) ==
    Then(saved_or(s, t, "sunbary", f, do_save), LAMBDA sun :
    IF sun.rc # "OK" THEN Parts(sun, {}, {}) ELSE
    Then(moon_of(sun.s, t, f, do_save), LAMBDA moon :
    IF moon.rc # "OK" THEN Parts(moon, {}, {}) ELSE
    Then(earth_of(moon.s, t, f, do_save, moon.x), LAMBDA earth :
    CASE earth.rc # "OK" -> Parts(earth, {}, {})
      [] earth.rc = "OK" /\ b = "moon"  -> Parts([earth EXCEPT !.x = moon.x], earth.x, sun.x)
      [] earth.rc = "OK" /\ b = "earth" -> Parts(earth, earth.x, sun.x)
      [] OTHER -> Parts(planet_of(earth.s, t, b, f, do_save, sun.x), earth.x, sun.x))))

\* swemoon(): the moon alone, for the osculating node and apogee.
swemoon(s, t, f) == saved_or(s, t, "moon", f, FALSE)
=============================================================================
