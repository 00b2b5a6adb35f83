--------------------------- MODULE AdmissionConfig ---------------------------
(***************************************************************************)
(* The parties and the configuration of sync admission (Config in          *)
(* experiments/server/santa_admission.py), shared by the middleware        *)
(* (Admission) and the host that runs it (Runtime).                        *)
(***************************************************************************)
EXTENDS Naturals

CONSTANTS
  Thread,         \* threads of the one web worker
  Token,          \* random 43-character owner tokens
  Source,         \* HMACs of client networks
  Credential,     \* HMACs of presented credentials
  Capacity,       \* Config.capacity
  Window,         \* Config.window, in clock ticks
  GlobalMax, SourceMax, CredentialMax,
  Global,         \* the 'sync-global' counter key
  None

ASSUME CapacityAssumption == Capacity \in Nat \ {0}
ASSUME LimitAssumption ==
  /\ Window \in Nat \ {0}
  /\ GlobalMax \in Nat \ {0}
  /\ SourceMax \in Nat \ {0}
  /\ CredentialMax \in Nat \ {0}
ASSUME KeyAssumption ==
  /\ Global \notin Source \cup Credential
  /\ Source \cap Credential = {}
  /\ None \notin Token
=============================================================================
