---------------------------- MODULE SharedTypes ----------------------------
(***************************************************************************)
(* The vocabulary shared by the backend, the processing worker and the     *)
(* metadata store: upload ids, the Processing_Status enumeration and the   *)
(* output files a video is turned into.                                    *)
(*                                                                         *)
(* An upload id is a UUID in the code and a natural number here: the only  *)
(* thing the code does with an id besides naming rows and files is to      *)
(* break ties between equal upload times (ORDER BY uploaded_at, id).       *)
(***************************************************************************)
EXTENDS Integers

CONSTANTS
    Ids,            \* the upload ids that may be handed out
    Plan,           \* Plan[id]: how many renditions planRenditions returns
    MaxRenditions,  \* the length of RENDITION_LADDER
    Null,           \* SQL NULL, JavaScript null
    Workers,        \* the processing processes
    Replicas,       \* the backend processes
    Keep,           \* JavaScript undefined in a patch: leave the column alone
    Faults          \* the failures the environment may produce (see below)

ASSUME IdsAssumption  == Ids \subseteq Nat
ASSUME LadderAssumption == MaxRenditions \in Nat \ {0}
ASSUME PlanAssumption == Plan \in [Ids -> 1..MaxRenditions]
ASSUME NullAssumption == Null \notin Nat
ASSUME ProcessAssumption == Null \notin Workers /\ Null \notin Replicas
ASSUME KeepAssumption ==
    /\ Keep \notin {"PENDING", "PROCESSING", "COMPLETED", "FAILED"}
    /\ Keep \notin BOOLEAN
    /\ Keep # Null

(***************************************************************************)
(* ioError       a file operation or an ffmpeg/ffprobe run fails           *)
(* noFrame       ffmpeg finds no frame for the thumbnail and succeeds      *)
(* busy          a write gives up with SQLITE_BUSY after its last attempt  *)
(* workerCrash   a worker process dies and is restarted                    *)
(* backendCrash  a backend replica dies and is restarted                   *)
(* lostCall      a call fails for the worker although the backend is up    *)
(* lateRequest   a request whose caller gave up is still delivered later   *)
(***************************************************************************)
AllFaults == {"ioError", "noFrame", "busy", "workerCrash", "backendCrash",
              "lostCall", "lateRequest"}
ASSUME FaultsAssumption == Faults \subseteq AllFaults

ProcessingStatus == {"PENDING", "PROCESSING", "COMPLETED", "FAILED"}

(***************************************************************************)
(* The output files of one upload: rendition i is the i-th entry of the    *)
(* plan (largest first), and slot 0 is the thumbnail.                      *)
(***************************************************************************)
Thumbnail == 0
Slots == 0..MaxRenditions
Renditions(id) == 1..Plan[id]
Outputs(id) == {Thumbnail} \cup Renditions(id)

(* A stored file is missing, being written, or completely written.         *)
FileState == {"absent", "partial", "full"}
NoFiles == [s \in Slots |-> "absent"]
=============================================================================
