----------------------------- MODULE MCSwissEph -----------------------------
(* Instances of SwissEph: three dates in two eras, the light-time date of   *)
(* the second in the era of the first, and programs asking for any two     *)
(* bodies.                                                                  *)
EXTENDS SwissEph, TLC

MCDates == {3, 5, 7}
MCEraOf == [t \in 2..7 |-> IF t <= 4 THEN 1 ELSE 2]
MCSegOf == [t \in 2..7 |-> IF t \in {2, 3, 5} THEN 1 ELSE 2]

None == [k \in Kinds \cup Texts |-> {}]
Full == [None EXCEPT !["sepl"] = 2..7, !["semo"] = 2..7, !["seas"] = 2..7,
                     !["seorbel"] = 2..7]
\* The asteroid file of the repository alone, its first date the first asked.
Asteroids == [None EXCEPT !["seas"] = 3..7]

Pairs(S) == {T \in SUBSET S : Cardinality(T) = 2}
Asks(S, ephs) == {q \in [ipl : S, t : MCDates, f : Flags] :
                    ~q.f.raw /\ q.f.eph = IF q.ipl = "FICT" THEN "MOS" ELSE ephs}

\* The web application: Moshier's theory, the asteroid file where the thread
\* has set the path.
Web == {[sets |-> FALSE, first |-> {}, asks |-> Asks(S, "MOS"),
         disk |-> ("def" :> None @@ "res" :> Asteroids)] :
           S \in Pairs({"SUN", "MOON", "MARS", "NODE", "CHIRON", "MEAN"}) \cup
                 {{"MOON", "MARS", "NODE"}}}

\* The same with stars, with the repository's catalogue and without one.
Starry(d) == [d EXCEPT !["sefstars"] = 2..7]
Stargazers == {[sets |-> FALSE, first |-> {}, asks |-> Asks(S, "MOS"), disk |-> d] :
                  S \in Pairs({"SPICA", "SIRIUS", "SUN", "CHIRON"}),
                  d \in {"def" :> None @@ "res" :> Asteroids,
                         "def" :> None @@ "res" :> Starry(Asteroids)}}

\* The desktop program: setpath first, a chart of one moment by Moshier's
\* theory, then the files where there are any, Moshier's theory for the
\* fictitious body.
FirstChart(S) == {q \in Asks((S \ {"FICT", "NUT"}) \cup {"SUN"}, "MOS") :
                    q.t = 7 /\ ~q.f.speed}
Desktop == {[sets |-> TRUE, first |-> FirstChart(S), asks |-> Asks(S, "SWI"),
             disk |-> ("def" :> None @@ "res" :> d)] :
               S \in Pairs({"SUN", "MOON", "MARS", "NODE", "CHIRON", "FICT", "NUT"}) \cup
                     {{"CHIRON", "FICT", "NUT"}},
               d \in {Full, Asteroids}}
MCClients == Web \cup Stargazers \cup Desktop
=============================================================================
