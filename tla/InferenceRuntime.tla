-------------------------- MODULE InferenceRuntime --------------------------
(***************************************************************************)
(* The policies' networks: the file named in config.yaml, which runtime    *)
(* loads it, what InitRL keeps of a load that fails, and what an inference *)
(* makes of an observation of the wrong size. Only sizes are modelled.     *)
(* Which runtimes there are is decided when the program is built.          *)
(***************************************************************************)
EXTENDS Integers, Sequences, SequencesExt

CONSTANTS
  Files, \* the policies' files: [extension, valid, shape, obs]: the network's
         \* input, with -1 for a dimension left open, and the size of what
         \* Forward builds for it
  MaxEntries \* bound: policies entered

VARIABLES
  compiled, \* USE_TORCH, USE_ONNX
  state,    \* the file of the current policy; NoFile when passive
  ready,    \* rl_init_done
  model,    \* [loaded, type, file, input_shape], or NullModel
  answer,   \* of the last inference: [file, used], the elements it took
  alive,    \* the process has not been terminated
  entries

NetworkAssumption ==
  /\ MaxEntries \in Nat
  /\ \A file \in Files :
       /\ file = [extension |-> file.extension, valid |-> file.valid, shape |-> file.shape,
                  obs |-> file.obs]
       /\ file.shape \in Seq(Int) /\ file.shape # <<>> /\ file.obs \in Nat

inferenceVars == <<compiled, state, ready, model, answer, alive, entries>>

NoFile == [extension |-> "none", valid |-> FALSE, shape |-> <<>>, obs |-> 0]
NullModel == [loaded |-> FALSE, type |-> "null", file |-> NoFile, input_shape |-> <<>>]

InferenceInit ==
  /\ compiled \in SUBSET {"TORCH", "ONNX"}
  /\ state = NoFile /\ ready = FALSE /\ model = NullModel
  /\ answer = [file |-> NoFile, used |-> 0] /\ alive = TRUE /\ entries = 0

-----------------------------------------------------------------------------
(* detect_model_type, in lower case; it throws for any other.               *)
DetectModelType(file) ==
  CASE file.extension \in {".pt", ".pth"} -> "TORCH"
    [] file.extension = ".onnx" -> "ONNX"
    [] OTHER -> "throw"

(* setup_input_output_info notes this, but nothing reads it.                *)
InputShape(shape) == [i \in DOMAIN shape |-> IF shape[i] = -1 THEN 1 ELSE shape[i]]

TorchLoad(file) == "TORCH" \in compiled /\ file.valid
ONNXLoad(file) == "ONNX" \in compiled /\ file.valid

(* A faulty variant: the model is returned whether it was loaded or not.   *)
LoadModelUnchecked(file) ==
  LET type == DetectModelType(file)
  IN IF type = "throw" THEN model
     ELSE [loaded |-> type \in compiled /\ file.valid, type |-> type, file |-> file,
           input_shape |-> InputShape(file.shape)]

(* InitRL's model after create_model and load: nothing is returned of a    *)
(* load that failed, and the one before is kept if there is none to try.   *)
LoadModel(file) ==
  LET type == DetectModelType(file)
      loaded == IF type = "TORCH" THEN TorchLoad(file) ELSE ONNXLoad(file)
  IN CASE type = "throw" -> model
       [] type # "throw" /\ loaded -> [loaded |-> TRUE, type |-> type, file |-> file,
                                        input_shape |-> InputShape(file.shape)]
       [] OTHER -> NullModel

(* InitRL, in Enter, may also throw before it comes to the model. Enter's  *)
(* handler asks for Passive.                                               *)
EnterRL(file) ==
  /\ alive /\ state = NoFile /\ entries < MaxEntries
  /\ entries' = entries + 1
  /\ \/ model' = LoadModel(file)
        /\ state' = IF DetectModelType(file) = "throw" \/ model'.type = "null"
                    THEN NoFile ELSE file
     \/ UNCHANGED <<model, state>>
  /\ UNCHANGED <<compiled, ready, answer, alive>>

Run ==
  /\ alive /\ state # NoFile /\ ~ready
  /\ ready' = TRUE
  /\ UNCHANGED <<compiled, state, model, answer, alive, entries>>

Exit ==
  /\ alive /\ state # NoFile
  /\ ready' = FALSE /\ state' = NoFile
  /\ UNCHANGED <<compiled, model, answer, alive, entries>>

-----------------------------------------------------------------------------
Thrown == -1
Elements(shape) == FoldLeft(LAMBDA product, dim : product * dim, 1, shape)

(* TorchModel::forward: one row of whatever size, which the network's first *)
(* layer takes or not.                                                     *)
TorchForward(shape, size) ==
  IF shape[Len(shape)] \in {-1, size} THEN size ELSE Thrown

(* ONNXModel::forward: a tensor of the network's own shape over the memory  *)
(* of the observation. The library refuses a dimension left open, and one  *)
(* the memory is too small for.                                            *)
ONNXForward(shape, size) ==
  IF (\A i \in DOMAIN shape : shape[i] >= 0) /\ Elements(shape) <= size
  THEN Elements(shape)
  ELSE Thrown

ModelForward(type, shape, size) ==
  IF type = "TORCH" THEN TorchForward(shape, size) ELSE ONNXForward(shape, size)

(* RunModel's Forward: what an inference throws, nothing on the policy      *)
(* thread catches.                                                         *)
Forward ==
  /\ alive /\ ready
  /\ LET used == IF model.loaded THEN ModelForward(model.type, model.file.shape, state.obs)
                 ELSE Thrown
     IN \/ used = Thrown /\ alive' = FALSE /\ UNCHANGED answer
        \/ used # Thrown /\ answer' = [file |-> state, used |-> used] /\ UNCHANGED alive
  /\ UNCHANGED <<compiled, state, ready, model, entries>>

InferenceNext == (\E file \in Files : EnterRL(file)) \/ Run \/ Exit \/ Forward

-----------------------------------------------------------------------------
(* The policy loop only ever runs a model that was loaded, and from the    *)
(* file of the state that is entered: a model left by a failed InitRL is   *)
(* never asked (load_model, InitRL and the handler in Enter).              *)
ReadyModel == ready => model.loaded /\ model.file = state

(* An answer takes all of the observation into account; the one exception  *)
(* is ONNX with more elements than the network has inputs, where the rest  *)
(* is dropped without a word (ONNXModel::forward).                         *)
WholeObservation ==
  LET file == answer.file
  IN \/ answer.used = file.obs
     \/ /\ file.extension = ".onnx" /\ answer.used < file.obs
        /\ answer.used = Elements(file.shape)

(* No network ends the program. Its size is not among what InitRL compares:*)
(* the first inference throws, and not the load.                           *)
Survives == alive
=============================================================================
