------------------------------ MODULE PriceModel ------------------------------
(***************************************************************************)
(* The price model of forecasting-service: the files train_final.py writes *)
(* one after the other, and the API server that reads them at its first    *)
(* request and answers with what it read until it is started again         *)
(* (ml/predictor.py, api/).  Training runs in the directory the server     *)
(* reads (data/), while the server runs.                                   *)
(*                                                                         *)
(* A generation is a run of training.  Its columns are the measures, then  *)
(* one column for each category that its flats happen to have, so two      *)
(* generations may differ in them.  A row is what the model is given: the  *)
(* name of a measure stands for the value the request gives for it.        *)
(***************************************************************************)
EXTENDS Naturals, Sequences

CONSTANTS
    Measures,      \* the fields of FlatFeatures, a sequence
    OneHot,        \* the category columns of each generation's flats
    MaxTrainings,  \* bound on the generations
    Requests,      \* the requests that may be under way at a time
    Zero, Absent, Torn, NoPredictor

Generations == 1..MaxTrainings

\* The columns of normalize_dataset.py, as feature_names.json lists them.
FeatureNames(g) == Measures \o OneHot[g]

Contents == Generations \cup {Absent, Torn}
Part == <<"model", "scaler", "names">>

ASSUME PriceAssumption ==
    /\ MaxTrainings \in Nat
    /\ Measures \in Seq(STRING) /\ OneHot \in [Generations -> Seq(STRING)]
    /\ Absent \notin Generations /\ Torn \notin Generations /\ Absent # Torn
    /\ Zero \notin STRING

VARIABLES
    files,       \* the generation a file holds; absent, or begun and not finished
    generation,  \* the last one that was trained
    written,     \* how many of the files the training has written, 4 when none runs
    writing,     \* the next file is begun
    predictor,   \* what lru_cache holds
    request      \* [pc, kind, using, spoilt, own] of a request

disk == <<files, generation, written, writing>>
price_vars == <<files, generation, written, writing, predictor, request>>

\* spoilt and own are history: the files were not of one generation while the
\* request, or whoever loaded what it uses, read them; and it loaded itself.
Loaded == [model: Generations \cup {0}, scaler: Generations \cup {0}, columns: Seq(STRING)]
Predictor == [using: Loaded, spoilt: BOOLEAN]
Request == [pc: {"idle", "model", "scaler", "names", "loaded", "ready", "answered", "failed"},
            kind: {"predict", "health"}, using: Loaded, spoilt: BOOLEAN, own: BOOLEAN]

Nothing == [model |-> 0, scaler |-> 0, columns |-> << >>]
NoRequest == [pc |-> "idle", kind |-> "predict", using |-> Nothing,
              spoilt |-> FALSE, own |-> FALSE]

PriceType ==
    /\ files \in [{"model", "scaler", "names"} -> Contents]
    /\ generation \in 0..MaxTrainings
    /\ written \in {0, 1, 2, 4} /\ writing \in BOOLEAN
    /\ predictor \in Predictor \cup {NoPredictor}
    /\ request \in [Requests -> Request]

PriceInit ==
    /\ files = [p \in {"model", "scaler", "names"} |-> Absent]
    /\ generation = 0 /\ written = 4 /\ writing = FALSE
    /\ predictor = NoPredictor
    /\ request = [r \in Requests |-> NoRequest]

Loading(r) == request[r].pc \in {"model", "scaler", "names"}

\* The files are of one generation.  Without names the scaler has them.
Whole ==
    /\ files["model"] \in Generations
    /\ files["scaler"] = files["model"]
    /\ files["names"] \in {files["model"], Absent}

(***************************************************************************)
(* Training, and its end: three files, in this order, none of them         *)
(* replaced at once.                                                       *)
(***************************************************************************)

Train ==
    /\ written = 4 /\ generation < MaxTrainings
    /\ generation' = generation + 1
    /\ written' = 0
    /\ UNCHANGED <<files, writing, predictor, request>>

BeginFile ==
    /\ written < 3 /\ ~writing
    /\ writing' = TRUE
    /\ files' = [files EXCEPT ![Part[written + 1]] = Torn]
    /\ request' = [r \in Requests |->
                      IF Loading(r) THEN [request[r] EXCEPT !.spoilt = TRUE] ELSE request[r]]
    /\ UNCHANGED <<generation, written, predictor>>

EndFile ==
    /\ written < 3 /\ writing
    /\ writing' = FALSE
    /\ files' = [files EXCEPT ![Part[written + 1]] = generation]
    /\ written' = IF written = 2 THEN 4 ELSE written + 1
    /\ UNCHANGED <<generation, predictor, request>>

\* Stopped or out of disk: what was written stays.
TrainingDies ==
    /\ written < 4
    /\ written' = 4 /\ writing' = FALSE
    /\ UNCHANGED <<files, generation, predictor, request>>

(***************************************************************************)
(* The server.  get_predictor runs in a thread for a prediction, and on    *)
(* the event loop for /health, which answers nobody else meanwhile.        *)
(***************************************************************************)

LoopFree == \A r \in Requests : ~(request[r].kind = "health" /\ Loading(r))

Arrive(r, kind) ==
    /\ request[r].pc = "idle" /\ LoopFree
    /\ request' = [request EXCEPT ![r] =
          IF predictor = NoPredictor
          THEN [NoRequest EXCEPT !.pc = "model", !.kind = kind, !.own = TRUE,
                                 !.spoilt = ~Whole]
          ELSE [NoRequest EXCEPT !.pc = "ready", !.kind = kind, !.using = predictor.using,
                                 !.spoilt = predictor.spoilt]]
    /\ UNCHANGED <<disk, predictor>>

Step(r, pc, using) ==
    /\ request' = [request EXCEPT ![r] = [@ EXCEPT !.pc = pc, !.using = using]]
    /\ UNCHANGED <<disk, predictor>>

LoadModel(r) ==
    /\ request[r].pc = "model" /\ files["model"] \in Generations
    /\ Step(r, "scaler", [request[r].using EXCEPT !.model = files["model"]])

LoadScaler(r) ==
    /\ request[r].pc = "scaler" /\ files["scaler"] \in Generations
    /\ Step(r, "names", [request[r].using EXCEPT !.scaler = files["scaler"]])

\* Mutant: without the list of names the fields of the request are taken.
LoadNamesOfFields(r) ==
    /\ request[r].pc = "names" /\ files["names"] # Torn
    /\ Step(r, "loaded", [request[r].using EXCEPT !.columns =
          IF files["names"] = Absent THEN Measures ELSE FeatureNames(files["names"])])

\* The model was fitted to arrays and knows no names; the scaler does.
LoadNames(r) ==
    /\ request[r].pc = "names" /\ files["names"] # Torn
    /\ Step(r, "loaded", [request[r].using EXCEPT !.columns = FeatureNames(
          IF files["names"] = Absent THEN request[r].using.scaler ELSE files["names"])])

\* The exception ends the request, with 500 or a health of "error"; lru_cache
\* keeps nothing.
LoadFails(r) ==
    /\ \/ /\ request[r].pc \in {"model", "scaler"}
          /\ files[request[r].pc] \notin Generations
       \/ request[r].pc = "names" /\ files["names"] = Torn
    /\ Step(r, "failed", request[r].using)

\* Mutant: the last to load wins.
KeepLast(r) ==
    /\ request[r].pc = "loaded"
    /\ predictor' = [using |-> request[r].using, spoilt |-> request[r].spoilt]
    /\ request' = [request EXCEPT ![r].pc = "ready"]
    /\ UNCHANGED disk

\* The first to return is kept; a request that loaded too late uses its own.
Keep(r) ==
    /\ request[r].pc = "loaded"
    /\ predictor' = IF predictor = NoPredictor
                    THEN [using |-> request[r].using, spoilt |-> request[r].spoilt]
                    ELSE predictor
    /\ request' = [request EXCEPT ![r].pc = "ready"]
    /\ UNCHANGED disk

\* The scaler refuses columns it was not fitted to, by name and order; the model
\* only counts them.
Fits(p) == p.columns = FeatureNames(p.scaler) /\ Len(p.columns) = Len(FeatureNames(p.model))

Answer(r) ==
    /\ request[r].pc = "ready" /\ LoopFree
    /\ Step(r, IF request[r].kind = "health" \/ Fits(request[r].using)
               THEN "answered" ELSE "failed", request[r].using)

Leave(r) ==
    /\ request[r].pc \in {"answered", "failed"}
    /\ request' = [request EXCEPT ![r] = NoRequest]
    /\ UNCHANGED <<disk, predictor>>

Restart ==
    /\ predictor' = NoPredictor
    /\ request' = [r \in Requests |-> NoRequest]
    /\ UNCHANGED disk

PriceNext ==
    \/ Train \/ BeginFile \/ EndFile \/ TrainingDies
    \/ \E r \in Requests :
          \/ \E kind \in {"predict", "health"} : Arrive(r, kind)
          \/ LoadModel(r) \/ LoadScaler(r) \/ LoadNames(r) \/ LoadFails(r)
          \/ Keep(r) \/ Answer(r) \/ Leave(r)
    \/ Restart

PriceSpec == PriceInit /\ [][PriceNext]_price_vars
-----------------------------------------------------------------------------
\* What the model is given: a measure in its column, 0 in every other, whatever
\* else the request says.
Row(columns) == [i \in DOMAIN columns |->
    IF \E k \in DOMAIN Measures : Measures[k] = columns[i] THEN columns[i] ELSE Zero]

\* A server that read the files while they were of one generation answers, and
\* every value stands in the column the model was trained on, however training
\* goes on, dies or starts again beside it.
SoundUnlessSpoilt ==
    \A r \in Requests :
        request[r].pc \in {"answered", "failed"} /\ ~request[r].spoilt
        => /\ request[r].pc = "answered"
           /\ request[r].using.scaler = request[r].using.model
           /\ Row(request[r].using.columns) = Row(FeatureNames(request[r].using.model))

\* Requests that find a predictor are all answered by one and the same, until
\* the server is started again: only those that loaded beside the first to
\* load may be answered by another.
AnswersAgree ==
    \A q, r \in Requests :
        /\ request[q].pc = "answered" /\ request[r].pc = "answered"
        /\ ~request[q].own /\ ~request[r].own
        => request[q].using = request[r].using
=============================================================================
