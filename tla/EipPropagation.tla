--------------------------- MODULE EipPropagation ---------------------------
(***************************************************************************)
(* How an instruction address travels from a core to the Hawkeye predictor *)
(* of the last-level cache: through one variable of the whole process,     *)
(* which the network thread copies into the last-level controller of the   *)
(* core that owns the cache whenever a directory message arrives.  Every   *)
(* core has a last-level controller of its own, and an access that hits    *)
(* there trains with the address remembered in that one.                   *)
(***************************************************************************)
EXTENDS Naturals

CONSTANTS
  Cores,
  MasterOf,  \* the core whose controllers receive the directory's messages
  Eips,      \* instruction addresses
  NoEip      \* 0: what global_eip and every m_eip start from

(* What the theorems assume: every core has a master, which is its own.     *)
EipAssumption ==
  /\ NoEip \notin Cores
  /\ MasterOf \in [Cores -> Cores]
  /\ \A c \in Cores : MasterOf[MasterOf[c]] = MasterOf[c]

VARIABLES
  global_eip,
  m_eip,    \* of each core's last-level controller
  eip,      \* the address each core's access was made with
  stage,    \* where its access is: nowhere, at the caches, at the directory
  filled,   \* the masters whose cache has received a line
  trained   \* the last training: which core, the address used

eipVars == <<global_eip, m_eip, eip, stage, filled, trained>>

Masters == {MasterOf[c] : c \in Cores}
Untrained == [core |-> NoEip, eip |-> NoEip, by |-> NoEip]

EipInit ==
  /\ global_eip = NoEip
  /\ m_eip = [c \in Cores |-> NoEip]
  /\ eip = [c \in Cores |-> NoEip]
  /\ stage = [c \in Cores |-> "idle"]
  /\ filled = {}
  /\ trained = Untrained

(* coreInitiateMemoryAccess; an instruction fetch passes 0.                *)
Issue(c, e) ==
  /\ stage[c] = "idle"
  /\ global_eip' = e
  /\ eip' = [eip EXCEPT ![c] = e]
  /\ stage' = [stage EXCEPT ![c] = "accessing"]
  /\ UNCHANGED <<m_eip, filled, trained>>

(* A hit above the last level does not reach its predictor.                *)
HitAbove(c) ==
  /\ stage[c] = "accessing"
  /\ MasterOf[c] \in filled
  /\ stage' = [stage EXCEPT ![c] = "idle"]
  /\ UNCHANGED <<global_eip, m_eip, eip, filled, trained>>

(* A hit in the last level trains.                                         *)
HitLastLevel(c) ==
  /\ stage[c] = "accessing"
  /\ MasterOf[c] \in filled
  /\ trained' = [core |-> c, eip |-> m_eip[c], by |-> eip[c]]
  /\ stage' = [stage EXCEPT ![c] = "idle"]
  /\ UNCHANGED <<global_eip, m_eip, eip, filled>>

MissLastLevel(c) ==
  /\ stage[c] = "accessing"
  /\ stage' = [stage EXCEPT ![c] = "missing"]
  /\ UNCHANGED <<global_eip, m_eip, eip, filled, trained>>

(* handleMsgFromNetwork with a reply: the requester goes on, without       *)
(* training.                                                               *)
Reply(c) ==
  /\ stage[c] = "missing"
  /\ m_eip' = [m_eip EXCEPT ![MasterOf[c]] = global_eip]
  /\ filled' = filled \cup {MasterOf[c]}
  /\ stage' = [stage EXCEPT ![c] = "idle"]
  /\ UNCHANGED <<global_eip, eip, trained>>

(* ... and with a snoop, for a line of whatever instruction.               *)
Snooped(m) ==
  /\ m \in filled
  /\ m_eip' = [m_eip EXCEPT ![m] = global_eip]
  /\ UNCHANGED <<global_eip, eip, stage, filled, trained>>

EipNext ==
  \/ \E c \in Cores :
       \/ \E e \in Eips \cup {NoEip} : Issue(c, e)
       \/ HitAbove(c) \/ HitLastLevel(c) \/ MissLastLevel(c) \/ Reply(c)
  \/ \E m \in Masters : Snooped(m)

EipSpec == EipInit /\ [][EipNext]_eipVars

-----------------------------------------------------------------------------
(* With a single core, the address the controller remembers when a miss is *)
(* answered is the one of the instruction that missed.                     *)
ReplyCarriesRequester ==
  [][\A c \in Cores : stage[c] = "missing" /\ stage'[c] # "missing" =>
       m_eip'[MasterOf[c]] = eip[c]]_eipVars

(* The cores that share a cache without owning it train one slot of its    *)
(* table, the one of address 0, whatever they execute.                     *)
SharersTrainZero ==
  trained.core \in Cores \ Masters => trained.eip = NoEip

(* "para ter acesso ao PC": the predictor is trained with the address of   *)
(* the instruction that makes the access.                                  *)
TrainsWithAccessingInstruction == trained.eip = trained.by
=============================================================================
