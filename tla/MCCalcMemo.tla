----------------------------- MODULE MCCalcMemo -----------------------------
(* An instance of CalcMemo whose library is SwissEph's: the moon and Chiron *)
(* by Moshier's theory, and the mean apogee in Chiron's place, for which    *)
(* SwissEph's mean node stands as another polynomial of the date; the       *)
(* directory of the repository with its asteroid file, and one without      *)
(* files.                                                                   *)
EXTENDS CalcMemo, TLC

CONSTANTS t1, t2

MCEraOf == [t \in 2..7 |-> IF t <= 4 THEN 1 ELSE 2]
Files == [k \in {"sepl", "semo", "seas", "sefstars", "seorbel"} |->
             IF k = "seas" THEN 2..7 ELSE {}]
Disk  == "def" :> [k \in DOMAIN Files |-> {}] @@ "res" :> Files

Library == INSTANCE SwissEph WITH
    Dates <- {3, 5, 7}, J2000 <- 5, EraOf <- MCEraOf, SegOf <- MCEraOf,
    Paths <- {"def", "res"}, DefaultPath <- "def", Clients <- {},
    client <- 0, chosen <- FALSE, swed <- 0, out <- 0

MCWanted == {"MOON", "CHIRON"}
MCQuestions == MCWanted \cup {"MEAN"}
MCInstead == [MOON |-> "MOON", CHIRON |-> "MEAN"]
Told(p, q) ==
    Library!Told(Library!swe_calc(Library!swe_set_ephe_path(Library!Zero(Disk), p),
                     [ipl |-> q, t |-> 3,
                      f |-> [eph |-> "MOS", speed |-> FALSE, raw |-> FALSE]]))

MCPositions == {"moon", "chiron", "mean"}
MCAnswerOf ==
    [p \in {"def", "res"} |->
        [MOON |-> "moon", CHIRON |-> IF p = "res" THEN "chiron" ELSE Error, MEAN |-> "mean"]]

\* These are the answers of SwissEph.
ASSUME LibraryAnswers ==
    \A p, s \in {"def", "res"}, q, u \in MCQuestions :
        /\ MCAnswerOf[p][q] = Error <=> Told(p, q).rc = "ERR"
        /\ MCAnswerOf[p][q] # Error /\ MCAnswerOf[s][u] # Error =>
             (MCAnswerOf[p][q] = MCAnswerOf[s][u] <=> Told(p, q).x = Told(s, u).x)
=============================================================================
