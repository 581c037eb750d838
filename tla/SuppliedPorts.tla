---------------------------- MODULE SuppliedPorts -----------------------------
(***************************************************************************)
(* The eight supplied-evidence ports side by side: a behaviour is one of   *)
(* one port, chosen in the initial state.  They share no state in the      *)
(* program; here they share one statement of what a port promises.         *)
(***************************************************************************)
EXTENDS SuppliedPort, TLC

Fronius == INSTANCE FroniusPort
Smartlogger == INSTANCE SmartloggerPort
Growatt == INSTANCE GrowattPort
Emma == INSTANCE EmmaPort
Luna == INSTANCE LunaPort
SDongle == INSTANCE SDonglePort
OutBack == INSTANCE OutBackPort
Sun2000 == INSTANCE Sun2000Port

Families ==
  {"fronius", "smartlogger", "growatt", "emma", "luna", "sdongle", "outback", "sun2000"}

(* The ports that admit one call at a time until its supplier has returned.*)
Exclusive == Families \ {"fronius", "emma"}

Init ==
  \/ Fronius!Init \/ Smartlogger!Init \/ Growatt!Init \/ Emma!Init
  \/ Luna!Init \/ SDongle!Init \/ OutBack!Init \/ Sun2000!Init

Next ==
  \/ Fronius!Next \/ Smartlogger!Next \/ Growatt!Next \/ Emma!Next
  \/ Luna!Next \/ SDongle!Next \/ OutBack!Next \/ Sun2000!Next

(* The next step of a call in flight.                                      *)
Call(c) ==
  CASE family = "fronius" -> Fronius!Call(c)
    [] family = "smartlogger" -> Smartlogger!Call(c)
    [] family = "growatt" -> Growatt!Call(c)
    [] family = "emma" -> Emma!Call(c)
    [] family = "luna" -> Luna!Call(c)
    [] family = "sdongle" -> SDongle!Call(c)
    [] family = "outback" -> OutBack!Call(c)
    [] family = "sun2000" -> Sun2000!Call(c)

Retiring == family = "smartlogger" /\ Smartlogger!RetirePort

(* Suppliers are synchronous and bounded by contract, and nobody keeps a   *)
(* port's lock: a call goes on, and so does a retirement half done.        *)
Fairness == (\A c \in Callers : WF_vars(Call(c))) /\ WF_vars(Retiring)

Spec == Init /\ [][Next]_vars /\ Fairness

---------------------------------------------------------------------------

Record ==
  CASE family = "fronius" -> Fronius!Record
    [] family = "smartlogger" -> Smartlogger!Record
    [] family = "growatt" -> Growatt!Record
    [] family = "emma" -> Emma!Record
    [] family = "luna" -> Luna!Record
    [] family = "sdongle" -> SDongle!Record
    [] family = "outback" -> OutBack!Record
    [] family = "sun2000" -> Sun2000!Record

Usable ==
  CASE family = "fronius" -> Fronius!Usable
    [] family = "smartlogger" -> Smartlogger!Usable
    [] family = "growatt" -> Growatt!Usable
    [] family = "emma" -> Emma!Usable
    [] family = "luna" -> Luna!Usable
    [] family = "sdongle" -> SDongle!Usable
    [] family = "outback" -> OutBack!Usable
    [] family = "sun2000" -> Sun2000!Usable

Fenced == INSTANCE FencedPublication WITH
  begun <- trace.begun, over <- trace.over, retired <- trace.retired,
  record <- Record, usable <- Usable

(* Every port implements the fenced publication: an attempt publishes at   *)
(* most once and never once a replacement, a retirement, a newer attempt   *)
(* or the end of its context has fenced it, however late its supplier      *)
(* answers; and no record that a fence made unusable is shown as current   *)
(* again without a publication.  (EMMA's contexts are left out: see        *)
(* CancelledIsNotCommitted.)                                               *)
Promise == Fenced!Spec

(* The ports that refuse a second call while one is out never have two     *)
(* callers between admission and return, whichever way the first one ends: *)
(* after a retirement, a replacement or a cancellation the supplier's slot *)
(* stays taken until the supplier is back, and it is free when no call is  *)
(* out, but for Growatt, where a panic of the supplier keeps it.           *)
OneCallOut ==
  family \in Exclusive =>
    /\ Cardinality({c \in Callers : ~Idle(c)}) <= 1
    /\ (\A c \in Callers : Idle(c)) /\ family # "growatt" =>
         ~(CASE family = "smartlogger" -> Smartlogger!Busy
             [] family = "luna" -> Luna!Busy
             [] family = "sdongle" -> SDongle!Busy
             [] family = "outback" -> OutBack!Busy
             [] family = "sun2000" -> Sun2000!Busy)

(* No call of the SmartLogger's supplier is made for a successor's         *)
(* context: a refresh that begins its native attempt after I17Retire moved *)
(* the owner on is stopped by the wrapped reader before the supplier.      *)
SupplierKeepsContext ==
  family = "smartlogger" =>
    \A c \in Callers : At(c, "supplier") => calls[c].frozen = Smartlogger!BuiltFor

(* The Growatt diagnostic is shown only with the base evidence it was      *)
(* derived from, while that evidence is current, before its deadline and   *)
(* before retirement; a diagnostic in view is always that of the base      *)
(* published with it, never that of an earlier one.                        *)
DiagnosticFollowsBase ==
  (family = "growatt" /\ owner.published.diagnostic # 0) =>
    /\ owner.published.diagnostic = owner.published.link
    /\ owner.published.link = owner.published.success
    /\ owner.published.state = "current"
    /\ ~owner.retired /\ owner.tick < owner.deadline

(* EMMA: "the native commit refuses the candidate" of a refresh whose      *)
(* context was over when its completion clock was read.                    *)
CancelledIsNotCommitted ==
  [][\A c \in Callers :
       ~(family = "emma" /\ calls[c].result = "cancelled" /\ Emma!CommitPublishes(c))]_vars

(* Every call returns to its caller.                                       *)
CallsReturn == \A c \in Callers : ~Idle(c) ~> Idle(c)

(* The callers of a port are alike.                                        *)
Symmetric == Permutations(Callers)

===============================================================================
