------------------------------ MODULE SwissEph ------------------------------
(***************************************************************************)
(* The Swiss Ephemeris library (src/ext/ext64) as one thread of the server *)
(* or the desktop program uses it through pysw: swe_set_ephe_path() and    *)
(* swe_calc(), every call of which runs to its end under the interpreter   *)
(* lock.  The library's structure swed is thread-local; between the calls  *)
(* it keeps open files, coefficients, positions and whole answers, and     *)
(* each call decides from dates and flags which of them it may use again.  *)
(***************************************************************************)
EXTENDS EphData, TLC

CONSTANTS
    Clients       \* the programs: what they ask for, which files they have

Planets == {"SUN", "MOON", "MARS", "MEAN", "NODE", "OSCU", "CHIRON", "FICT", "NUT"}
Builtin == {"SPICA"}                 \* a star whose record is in the code
Stars   == Builtin \cup {"SIRIUS"}
Ipls    == Planets \cup Stars
Askable == [ipl : Ipls, t : Dates, f : {f \in Flags : ~f.raw}]
SlotOf == [i \in {"SUN", "MOON", "MARS", "NODE", "OSCU", "CHIRON", "FICT"} |->
             CASE i = "SUN"    -> "earth"  [] i = "MOON" -> "moon"
               [] i = "MARS"   -> "mars"   [] i = "NODE" -> "node"
               [] i = "OSCU"   -> "apog"   [] i = "CHIRON" -> "chiron"
               [] i = "FICT"   -> "fict"]

\* Bodies that are no planets of the library share one entry of swed.savedat.
Areas == (Planets \ {"FICT", "NUT"}) \cup {"OTHER"}
AreaOf(i) == IF i \in {"FICT", "NUT"} THEN "OTHER" ELSE i

\* Planet files come with the lunar files of the same dates, for every date
\* anything is asked of; asteroid files may end earlier.  Stars are asked by
\* Moshier's theory (pysw.fixstar).  The desktop program computes its first
\* chart by Moshier's theory (state.py:34) and asks by the theory of its
\* files afterwards (nex.py:86).  From then on a program that asks for
\* obliquity and nutation asks all else by the same theory, except the
\* fictitious body; if that is Moshier's, it has no planet files.
ASSUME ClientsAssumption ==
    \A c \in Clients :
       /\ c.first \cup c.asks \subseteq Askable
       /\ c.sets \in BOOLEAN
       /\ c.disk \in [Paths -> [Kinds \cup Texts -> SUBSET AllDates]]
       /\ \A p \in Paths : /\ c.disk[p]["sepl"] = c.disk[p]["semo"]
                           /\ c.disk[p]["sepl"] \in {{}, AllDates}
       /\ \A q \in c.first : q.f.eph = "MOS" /\ q.ipl # "NUT"
       /\ \A q \in c.asks : q.ipl \in Stars => q.f.eph = "MOS"
       /\ \A q \in c.asks : q.ipl = "NUT" =>
             /\ \A r \in c.asks : r.ipl = "FICT" \/ r.f.eph = q.f.eph
             /\ q.f.eph = "MOS" => \A p \in Paths : c.disk[p]["sepl"] = {}

VARIABLES
    client,
    chosen,       \* the theory is chosen: state.epheflag, then opts.epheflag
    swed, out
vars == <<client, chosen, swed, out>>

Zero(disk) ==
    [init |-> FALSE, path |-> DefaultPath, pathset |-> FALSE, lasteph |-> "none",
     pl |-> [b \in Slots |-> NoPlan], save |-> [a \in Areas |-> NoSave],
     fid |-> [k \in Kinds |-> 0], oec |-> 0, nut |-> 0, nutv |-> 0,
     nutspeed |-> FALSE, last |-> [star |-> "none", data |-> {}], disk |-> disk]

Mos(f) == [f EXCEPT !.eph = "MOS"]

-----------------------------------------------------------------------------
(* Obliquity and nutation of the date, kept from call to call.  nutspeed   *)
(* is a static of the function: closing the library does not clear it.     *)

swi_check_ecliptic(s, t) == [s EXCEPT !.oec = t]

\* Mutant: nutation of the date without its speed is good enough.
swi_check_nutation_DateOnly(s, t, f) ==
    IF ~f.raw /\ t # s.nut
    THEN [s EXCEPT !.nut = t, !.nutspeed = f.speed,
                   !.nutv = IF f.speed THEN t ELSE @]
    ELSE s

swi_check_nutation(s, t, f) ==
    IF ~f.raw /\ (t # s.nut \/ (~s.nutspeed /\ f.speed))
    THEN [s EXCEPT !.nut = t, !.nutspeed = f.speed,
                   !.nutv = IF f.speed THEN t ELSE @]
    ELSE s

-----------------------------------------------------------------------------
(* Apparent positions.  Each function returns at once when the slot holds  *)
(* the answer for the same flags; a new position in the slot has put its   *)
(* flags to Renew.                                                         *)

Same(s, b, f) == s.pl[b].xflgs = f
again(s, b, f) == Result([s EXCEPT !.pl[b].iephe = f.eph], "OK", {})

\* The speed takes the nutation a little earlier, too.
swi_nutate(s, f, pos) ==
    [pos EXCEPT !.nut = s.nut, !.nutv = IF f.speed THEN s.nutv ELSE 0]

\* Precession and nutation of the date; the result goes to xreturn.
app_pos_rest(s, b, f, pos) ==
    LET p == [pos EXCEPT !.spd = f.speed]
        x == IF f.raw THEN p ELSE [swi_nutate(s, f, p) EXCEPT !.oec = s.oec]
    IN  Result([s EXCEPT !.pl[b].xret = x, !.pl[b].xflgs = f, !.pl[b].iephe = f.eph],
               "OK", {})

\* The sun that bends the light, where the earth is barycentric.
deflecting(s) == IF s.pl["earth"].iephe = "SWI" THEN s.pl["sunbary"].x ELSE {}

\* The planet (or asteroid), and the earth, when the light left.
at_light_time(s, t, b, f) ==
    CASE f.eph = "MOS" /\ ~f.speed -> Parts(Result(s, "OK", {}), {}, {})
      [] f.eph = "SWI" /\ b # "chiron" -> sweplan(s, t, b, f, FALSE)
      [] f.eph = "SWI" /\ b = "chiron" ->
           Then(sweplan(s, t, "earth", f, FALSE), LAMBDA earth :
           IF earth.rc # "OK" THEN earth
           ELSE Parts(sweph(earth.s, t, b, f, earth.sun, FALSE), earth.x, earth.sun))
      [] f.eph = "MOS" /\ f.speed /\ b # "chiron" -> swi_moshplan(s, t, b, FALSE)
      [] f.eph = "MOS" /\ f.speed /\ b = "chiron" ->
           Then(sweph(s, t, b, f, {}, FALSE), LAMBDA r :
           IF r.rc # "OK" THEN Parts(r, {}, {})
           ELSE Then(swi_moshplan(r.s, t, "earth", FALSE), LAMBDA earth :
                Parts([earth EXCEPT !.x = r.x], earth.x, {})))

app_pos_etc_plan(s, b, f) ==
    IF Same(s, b, f) THEN again(s, b, f)
    ELSE Then(at_light_time(s, LT(s.pl[b].teval), b, f), LAMBDA l :
         IF l.rc # "OK" THEN Result(l.s, l.rc, {})
         ELSE app_pos_rest(l.s, b, f,
                [NoPos EXCEPT !.true = l.s.pl[b].x,
                              !.obs  = l.s.pl["earth"].x \cup deflecting(l.s),
                              !.app  = l.x \cup l.e]))

\* The sun shares the slot of the earth.
sun_at_light_time(s, p, f) ==
    IF p.iephe = "SWI" THEN sweph(s, LT(p.teval), "sunbary", f, {}, FALSE)
    ELSE Result(s, IF p.iephe = "MOS" THEN "OK" ELSE "ERR", {})

app_pos_etc_sun(s, f) ==
    LET p == s.pl["earth"]
    IN  IF Same(s, "earth", f) THEN again(s, "earth", f)
        ELSE Then(sun_at_light_time(s, p, f), LAMBDA l :
             IF l.rc # "OK" THEN Result(l.s, l.rc, {})
             ELSE app_pos_rest(l.s, "earth", f,
                    [NoPos EXCEPT !.true = p.x, !.app = l.x,
                                  !.obs  = IF p.iephe = "MOS" THEN {}
                                           ELSE s.pl["sunbary"].x]))

app_pos_etc_moon(s, f) ==
    LET p == s.pl["moon"]
    IN  IF Same(s, "moon", f) THEN again(s, "moon", f)
        ELSE Then(IF p.iephe = "SWI" /\ ~f.raw THEN sweplan(s, LT(p.teval), "moon", f, FALSE)
                  ELSE Parts(Result(s, "OK", {}), {}, {}), LAMBDA l :
             IF l.rc # "OK" THEN Result(l.s, l.rc, {})
             ELSE app_pos_rest(l.s, "moon", f,
                    [NoPos EXCEPT !.true = p.x, !.obs = s.pl["earth"].x,
                                  !.app = l.x \cup l.e]))

\* Mutant: DO_SAVE at the light-time date.
main_planet_bary_Saves(s, t, f, do_save) ==
    IF f.eph = "MOS" THEN swi_moshplan(s, t, "earth", TRUE)
    ELSE Then(sweplan(s, t, "earth", f, TRUE), LAMBDA r :
         IF r.rc = "NA" THEN swi_moshplan(r.s, t, "earth", TRUE) ELSE r)

\* The earth, or Moshier's where there are no files.
main_planet_bary(s, t, f, do_save) ==
    IF f.eph = "MOS" THEN swi_moshplan(s, t, "earth", do_save)
    ELSE Then(sweplan(s, t, "earth", f, do_save), LAMBDA r :
         IF r.rc = "NA" THEN swi_moshplan(r.s, t, "earth", do_save) ELSE r)

\* A fictitious body: only its speed needs the earth of the light-time date.
app_pos_etc_plan_osc(s, f) ==
    LET p == s.pl["fict"]
    IN  Then(IF f.speed THEN main_planet_bary(s, LT(p.teval), f, FALSE)
             ELSE Parts(Result(s, "OK", {}), {}, {}), LAMBDA l :
        IF l.rc # "OK" THEN Result(l.s, l.rc, {})
        ELSE app_pos_rest(l.s, "fict", f,
               [NoPos EXCEPT !.true = p.x, !.app = l.x \cup l.sun,
                             !.obs  = l.s.pl["earth"].x \cup deflecting(l.s)]))

-----------------------------------------------------------------------------
(* swecalc(): one body.  The results carry the flags as they are returned: *)
(* where a file is missing the body comes from Moshier's theory instead,   *)
(* and the caller is told by the flags.                                    *)

Outcome(s, rc, f, x) == [s |-> s, rc |-> rc, f |-> f, x |-> x]
return_error(s) == Outcome(s, "ERR", Renew, NoPos)
Given(s, rc, f, b) == IF rc = "OK" THEN Outcome(s, "OK", f, s.pl[b].xret) ELSE return_error(s)

app_pos_etc(s, b, f) == IF b = "earth" THEN app_pos_etc_sun(s, f) ELSE app_pos_etc_plan(s, b, f)

main_planet(s, t, b, f) ==
    LET moshier(q) ==
            Then(app_pos_etc(swi_moshplan(q, t, b, TRUE).s, b, Mos(f)), LAMBDA n :
            Result(n.s, IF n.rc = "ERR" THEN "ERR" ELSE "OK", {}))
    IN  IF f.eph = "MOS" THEN moshier(s)
        ELSE Then(sweplan(s, t, b, f, TRUE), LAMBDA w :
             Then(IF w.rc = "OK" THEN app_pos_etc(w.s, b, f) ELSE w, LAMBDA r :
             IF r.rc = "NA" THEN moshier(r.s) ELSE Result(r.s, r.rc, {})))

moon(s, t, f) ==
    LET apparent(q, g) ==
            Then(app_pos_etc_moon(q, g), LAMBDA a : Given(a.s, a.rc, g, "moon"))
        moshier(q) ==
            apparent(swi_moshplan(swi_moshmoon(q, t, TRUE).s, t, "earth", TRUE).s, Mos(f))
    IN  IF f.eph = "MOS" THEN moshier(s)
        ELSE Then(sweplan(s, t, "moon", f, TRUE), LAMBDA w :
             CASE w.rc = "OK"  -> apparent(w.s, f)
               [] w.rc = "NA"  -> moshier(w.s)
               [] w.rc = "ERR" -> return_error(w.s))

\* Mutant: the flags that were asked for are returned.
planet_AskedFlags(s, t, b, f) ==
    Then(main_planet(s, t, b, f), LAMBDA r : Given(r.s, r.rc, f, b))

planet(s, t, b, f) ==
    Then(main_planet(s, t, b, f), LAMBDA r : Given(r.s, r.rc, r.s.pl[b].xflgs, b))

\* The mean node is a polynomial of the date, and is always computed.
app_pos_etc_mean(s, f) ==
    IF Same(s, "mean", f) THEN again(s, "mean", f)
    ELSE app_pos_rest(s, "mean", f, [NoPos EXCEPT !.true = s.pl["mean"].x])

mean_node(s, t, f) ==
    LET x == {Eval("mean", "none", t, NoSeg), Eval("mean", "none", LT(t), NoSeg)}
        s1 == [s EXCEPT !.pl["mean"].x = x, !.pl["mean"].teval = t,
                        !.pl["mean"].xflgs = Renew]
    IN  Then(app_pos_etc_mean(s1, f), LAMBDA r : Given(r.s, "OK", f, "mean"))

\* Osculating node and apogee: both come from the moon and are stored
\* together.  A moon of the wrong theory may be in the save area, so its date
\* is put to 0.
three_positions(s, t, f) ==
    LET moshier(q) == Outcome(q, "OK", Mos(f), swi_moshmoon(q, t, FALSE).x)
    IN  IF f.eph = "MOS" THEN moshier(s)
        ELSE Then(swemoon(s, t, f), LAMBDA m :
             Then(IF m.rc = "OK" THEN swemoon(m.s, LT(t), f) ELSE m, LAMBDA l :
             IF l.rc = "NA" THEN moshier(l.s) ELSE Outcome(l.s, l.rc, f, l.x \cup m.x)))

swi_plan_for_osc_elem(s, pos) == [pos EXCEPT !.oec = s.oec, !.nut = s.nut]

osculating(m, t, speed) ==
    LET xret == swi_plan_for_osc_elem(m.s, [NoPos EXCEPT !.true = m.x, !.spd = speed])
        elem(n) == [m.s.pl[n] EXCEPT !.x = m.x, !.teval = t, !.xret = xret,
                                     !.xflgs = m.f, !.iephe = m.f.eph]
    IN  [m.s EXCEPT !.pl["node"] = elem("node"), !.pl["apog"] = elem("apog")]

lunar_osc_elem(s, t, b, f) ==
    IF s.pl[b].teval = t /\ Same(s, b, f)
    THEN Then(again(s, b, f), LAMBDA r : Given(r.s, "OK", f, b))
    ELSE Then(three_positions([s EXCEPT !.pl["moon"].teval = 0], t, f), LAMBDA m :
         IF m.rc = "ERR" THEN return_error(m.s)
         ELSE Then(osculating(m, t, f.speed), LAMBDA r : Given(r, "OK", m.f, b)))

\* Chiron is on the asteroid files; earth and sun are needed with it.  When
\* the file ends between the date and its light-time date, once more with
\* Moshier's earth.
chiron_once(s, t, f) ==
    Then(main_planet(s, t, "earth", f), LAMBDA e :
    LET f1 == e.s.pl["earth"].xflgs
    IN  IF e.rc = "ERR" THEN Outcome(e.s, "ERR", f1, {}) ELSE
        Then(sweph(e.s, t, "chiron", f1, e.s.pl["sunbary"].x, TRUE), LAMBDA c :
        IF c.rc # "OK" THEN Outcome(c.s, "ERR", f1, {}) ELSE
        Then(app_pos_etc_plan(c.s, "chiron", f1), LAMBDA a : Outcome(a.s, a.rc, f1, {}))))

chiron(s, t, f) ==
    Then(chiron_once(s, t, f), LAMBDA a :
    Then(IF a.rc = "NA" /\ f.eph = "SWI" THEN chiron_once(a.s, t, Mos(f)) ELSE a, LAMBDA r :
    Given(r.s, r.rc, r.f, "chiron")))

\* The elements are in a list in the directory, or built in; the list is
\* read each time.
read_elements_file(s) == IF Exists(s, "seorbel") THEN "list" ELSE "none"

\* The sun is added to the body as it stands in its slot, which is empty as
\* long as the theory is Moshier's.
swi_osc_el_plan(s, t) ==
    [s EXCEPT !.pl["fict"].x = {Eval("fict", read_elements_file(s), t, NoSeg)}
                                  \cup s.pl["sunbary"].x,
              !.pl["fict"].teval = t,
              !.pl["fict"].iephe = s.pl["earth"].iephe]

fictitious(s, t, f) ==
    Then(main_planet(s, t, "earth", f), LAMBDA e :
    LET f1 == e.s.pl["earth"].xflgs
        p  == swi_osc_el_plan(e.s, t)
    IN  IF e.rc = "ERR" THEN return_error(p)
        ELSE Then(app_pos_etc_plan_osc(p, f1), LAMBDA a :
             Given(a.s, a.rc, f1, "fict")))

\* Obliquity and nutation themselves.
ecl_nut(s, f) == Outcome(s, "OK", f, [NoPos EXCEPT !.oec = s.oec, !.nut = s.nut])

-----------------------------------------------------------------------------
(* swe_set_ephe_path(): everything kept is dropped; then the moon of J2000 *)
(* is asked of the new directory, to learn the number of its ephemeris.    *)

swi_init_swed_if_start(s) ==
    IF s.init THEN s
    ELSE [Zero(s.disk) EXCEPT !.init = TRUE, !.nutspeed = s.nutspeed]

swi_close_keep_topo_etc(s) ==
    [free_planets(close_files(s)) EXCEPT !.oec = 0, !.nut = 0, !.nutv = 0]

Raw == [eph |-> "SWI", speed |-> FALSE, raw |-> TRUE]

swe_set_ephe_path(s, p) ==
    Then([swi_init_swed_if_start(swi_close_keep_topo_etc(s))
             EXCEPT !.pathset = TRUE, !.path = p, !.lasteph = "SWI"], LAMBDA s1 :
    Then(moon(swi_check_ecliptic(s1, J2000), J2000, Raw), LAMBDA r :
    [r.s EXCEPT !.save["MOON"] = [ipl |-> "MOON", tsave |-> J2000, flags |-> r.f, x |-> r.x]]))

swecalc(s, q) ==
    Then(IF q.f.eph = "SWI" /\ ~s.pathset THEN swe_set_ephe_path(s, DefaultPath) ELSE s, LAMBDA s1 :
    Then(swi_check_nutation(swi_check_ecliptic(s1, q.t), q.t, q.f), LAMBDA s2 :
    CASE q.ipl = "NUT"              -> ecl_nut(s2, q.f)
      [] q.ipl = "MOON"             -> moon(s2, q.t, q.f)
      [] q.ipl \in {"SUN", "MARS"}  -> planet(s2, q.t, SlotOf[q.ipl], q.f)
      [] q.ipl = "MEAN"             -> mean_node(s2, q.t, q.f)
      [] q.ipl \in {"NODE", "OSCU"} -> lunar_osc_elem(s2, q.t, SlotOf[q.ipl], q.f)
      [] q.ipl = "CHIRON"           -> chiron(s2, q.t, q.f)
      [] q.ipl = "FICT"             -> fictitious(s2, q.t, q.f)))

\* Mutant: the files stay open whatever is asked.
switch_ephemeris_KeepsFiles(s, q) ==
    IF s.lasteph = q.f.eph THEN s
    ELSE IF q.ipl = "NUT" THEN free_planets(s)
    ELSE [free_planets(s) EXCEPT !.lasteph = q.f.eph]

\* A call for the other theory than the last one's clears the save areas and
\* closes the files - but for obliquity and nutation the files stay open.
switch_ephemeris(s, q) ==
    IF s.lasteph = q.f.eph THEN s
    ELSE IF q.ipl = "NUT" THEN free_planets(s)
    ELSE [close_files(free_planets(s)) EXCEPT !.lasteph = q.f.eph]

\* swe_calc(): an answer kept for the same body, date and flags is given
\* again; otherwise the body is computed and the answer kept.
kept(s, q) == LET sd == s.save[AreaOf(q.ipl)]
              IN  sd.tsave = q.t /\ sd.ipl = q.ipl /\ sd.flags = q.f

swe_calc(s, q) ==
    LET a == AreaOf(q.ipl)
    IN  Then(switch_ephemeris(swi_init_swed_if_start(s), q), LAMBDA s1 :
        IF kept(s1, q) THEN Outcome(s1, "OK", s1.save[a].flags, s1.save[a].x)
        ELSE Then(swecalc([s1 EXCEPT !.save[a].tsave = q.t, !.save[a].ipl = q.ipl], q), LAMBDA r :
             [r EXCEPT !.s.save[a].flags = r.f, !.s.save[a].x = r.x]))

-----------------------------------------------------------------------------
(* swe_fixstar(): a star from its record.  The record of the last star is  *)
(* kept, whatever directory is set meanwhile.                              *)

Record(b) == {Eval(b, "none", 0, NoSeg)}

swi_fixstar_load_record(s, b) ==
    IF Exists(s, "sefstars") THEN Result(s, "OK", Record(b)) ELSE Result(s, "ERR", {})

star_record(s, b) ==
    IF s.last.star = b THEN Result(s, "OK", s.last.data)
    ELSE IF b \in Builtin THEN Result(s, "OK", Record(b))
    ELSE swi_fixstar_load_record(s, b)

\* The earth a moment before, for the aberration's speed, then the earth
\* of the date, which is kept.
swi_fixstar_calc_from_record(s, data, t, f) ==
    LET f1 == [f EXCEPT !.speed = TRUE]
        s1 == IF s.lasteph = f.eph THEN s
              ELSE [close_files(free_planets(s)) EXCEPT !.lasteph = f.eph]
        s2 == swi_check_nutation(swi_check_ecliptic(s1, t), t, f1)
    IN  Then(main_planet_bary(s2, LT(t), f1, FALSE), LAMBDA e1 :
        Then(main_planet_bary(e1.s, t, f1, TRUE), LAMBDA e2 :
        IF e1.rc # "OK" \/ e2.rc # "OK" THEN Outcome(e2.s, "ERR", f, NoPos)
        ELSE Outcome(e2.s, "OK", f,
               [NoPos EXCEPT !.true = data, !.obs = e2.x \cup deflecting(e2.s),
                             !.app = e1.x, !.spd = f.speed, !.oec = e2.s.oec,
                             !.nut = e2.s.nut, !.nutv = IF f.speed THEN e2.s.nutv ELSE 0])))

swe_fixstar(s, q) ==
    Then(star_record(swi_init_swed_if_start(s), q.ipl), LAMBDA r :
    IF r.rc # "OK" THEN Outcome(r.s, "ERR", q.f, NoPos)
    ELSE swi_fixstar_calc_from_record(
           [r.s EXCEPT !.last = [star |-> q.ipl, data |-> r.x]], r.x, q.t, q.f))

-----------------------------------------------------------------------------
\* What the caller sees: the return code, the theory the flags name, the position.
Told(r) == [rc |-> r.rc, eph |-> r.f.eph, x |-> r.x]
NoQuestion == [ipl |-> "none"]
NoAnswer   == [rc |-> "none", eph |-> "none", x |-> NoPos]

\* What the program may ask next
AskedNow == IF chosen THEN client.asks ELSE client.first

Init == /\ client \in Clients
        /\ chosen = (client.first = {})
        /\ swed = Zero(client.disk)
        /\ out = [q |-> NoQuestion, a |-> NoAnswer]

\* No program leaves a directory with a star catalogue for one without: they
\* all set one directory, and the record of the last star outlives a change.
SetEphePath(p) == /\ Exists(swed, "sefstars") => client.disk[p]["sefstars"] # {}
                  /\ swed' = swe_set_ephe_path(swed, p)
                  /\ out' = [q |-> NoQuestion, a |-> NoAnswer]
                  /\ UNCHANGED <<client, chosen>>

\* init_nowchart() has asked for the first chart; from now on the program
\* asks by the theory of its files.
ChooseTheory == /\ ~chosen /\ out.q # NoQuestion
                /\ chosen' = TRUE
                /\ UNCHANGED <<client, swed, out>>

\* A program with c.sets calls setpath() before it asks for anything.
Ask(q, r) == /\ client.sets => swed.pathset
             /\ swed' = r.s
             /\ out' = [q |-> q, a |-> Told(r)]
             /\ UNCHANGED <<client, chosen>>

Calc(q)    == q.ipl \in Planets /\ Ask(q, swe_calc(swed, q))
Fixstar(q) == q.ipl \in Stars /\ Ask(q, swe_fixstar(swed, q))

Next == \/ \E p \in Paths : SetEphePath(p)
        \/ ChooseTheory
        \/ \E q \in AskedNow : Calc(q) \/ Fixstar(q)

Spec == Init /\ [][Next]_vars

-----------------------------------------------------------------------------
(* Properties.                                                             *)

SwedType ==
    /\ swed.path \in Paths /\ swed.lasteph \in {"none", "MOS", "SWI"}
    /\ swed.oec \in Dates \cup {0} /\ swed.nut \in Dates \cup {0}
    /\ \A b \in Slots : /\ swed.pl[b].teval \in Dates \cup {0}
                       /\ swed.pl[b].iephe \in {"none", "MOS", "SWI"}
                       /\ swed.pl[b].xflgs \in Flags \cup {NoFlags, Renew}
                       /\ {e.t : e \in swed.pl[b].x} \subseteq AllDates
    /\ \A a \in Areas : /\ swed.save[a].tsave \in Dates \cup {0}
                       /\ swed.save[a].flags \in Flags \cup {NoFlags, Renew}

\* Type invariant: the structure of one thread (struct swe_data in sweph.h).
TypeOK == client \in Clients /\ chosen \in BOOLEAN /\ SwedType /\ swed.disk = client.disk

\* The bodies a call may read from their files
Reads(q) == CASE q.ipl = "NUT"                        -> {}
              [] q.ipl # "NUT" /\ q.f.eph = "SWI"     -> Bodies \ {"fict"}
              [] q.ipl = "CHIRON" /\ q.f.eph = "MOS"  -> {"chiron"}
              [] q.ipl \notin {"NUT", "CHIRON"} /\ q.f.eph = "MOS" -> {}

HasConstants(s, b) == s.fid[FileOf(b)] # 0 => s.pl[b].era = s.fid[FileOf(b)]

\* No call reads a file without its constants: otherwise the next segment
\* divides by a segment length of zero.  Obliquity and nutation may take them
\* from a file of the other theory that stays open (sweph.c:389); whatever
\* the program may ask next has them, or closes the file first.
OpenFileHasConstants ==
    \A q \in AskedNow : \A b \in Reads(q) : HasConstants(switch_ephemeris(swed, q), b)

\* A position in a save area is of the date and the theory the area names,
\* whatever else was computed through the slot, the evaluations for the
\* light-time date included (pldat in sweph, sweplan, swi_moshplan).
PositionIsOfItsDate ==
    \A b \in {"earth", "sunbary", "moon", "mars"} :
        swed.pl[b].teval # 0 =>
            \A e \in swed.pl[b].x :
                e.t = swed.pl[b].teval /\ e.src \in {swed.pl[b].iephe, "none"}

\* "The caller learns from the return flag which ephemeris was used"
\* (sweph.c:624): planets, moon and sun of an answer are of the theory it
\* names; asteroids are always from their file.
FlagTellsSource ==
    LET a == out.a
    IN  a.rc = "OK" => \A e \in a.x.true \cup a.x.obs \cup a.x.app :
                           e.src \in {a.eph, "none"} \/ e.of \in {"chiron", "fict"}

\* The answers of instances that were asked nothing before (tabulated by @@).
Fresh == [d \in {c.disk : c \in Clients}, p \in Paths, q \in Askable |->
             Then(swe_set_ephe_path(Zero(d), p), LAMBDA s :
             Told(IF q.ipl \in Stars THEN swe_fixstar(s, q) ELSE swe_calc(s, q)))] @@ <<>>

Contract == INSTANCE EphContract WITH
    Files <- {c.disk : c \in Clients}, Path <- Paths,
    Question <- Askable, AnswerOf <- Fresh,
    files <- client.disk, path <- swed.path, asked <- out.q, answer <- out.a

\* History does not show: swe_calc() and swe_set_ephe_path() implement the
\* contract their callers count on, every answer being the one a new
\* instance with the same files and directory gives.
KeepsContract == Contract!Spec
=============================================================================
