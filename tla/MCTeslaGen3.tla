----------------------------- MODULE MCTeslaGen3 -----------------------------
(* What the Tesla Gen3 read acquisition promises to its users. *)
EXTENDS TeslaGen3Acquisition

(* One of the five observation operations. *)
OneOperation == <<"vitals">>

(* Whenever nobody holds the slot, a lifecycle that reports ready owns an  *)
(* open endpoint that is not fenced: no failed exchange, recovery,         *)
(* activation or retirement leaves it ready with nothing to exchange with. *)
ReadyIsUsable ==
    ~acq.busy /\ acq.state = "ready" => acq.endpoint # NoEndpoint /\ Usable(acq.endpoint)

(* An epoch admits sends of one generation of one endpoint, and a later    *)
(* epoch on the same endpoint only those of a successor generation, so no  *)
(* late answer of one epoch can be taken for an answer of the next.        *)
OneGenerationPerEpoch ==
    \A a, b \in admitted :
        /\ a.epoch = b.epoch => a = b
        /\ a.epoch < b.epoch /\ a.ep = b.ep => a.generation < b.generation

(* The serial port has one user: an open endpoint is the owned one, or is  *)
(* in the hands of the call or of the Close that is about to install or    *)
(* close it, and there is never a second one.                              *)
NoLeak ==
    LET open == {e \in Endpoints : wire[e].status = "open"}
    IN
    /\ \A e \in open :
          \/ e \in {acq.endpoint, closing}
          \/ \E c \in Callers : call[c].ep = e /\ call[c].pc \in {"install", "close_retired"}
    /\ Cardinality(open \ {closing}) <= 1

(* The three together: who may use which endpoint, and until when.         *)
EndpointInv == ReadyIsUsable /\ OneGenerationPerEpoch /\ NoLeak

(* A request is let through only for the call in the slot, on the endpoint *)
(* the lifecycle owns: the admission of a retired endpoint denies it.      *)
AdmittedIsOwned ==
    [][admitted' # admitted =>
          \E c \in Callers :
              /\ call[c].pc = "send"
              /\ acq.endpoint = call[c].ep
              /\ admitted' \ admitted \subseteq
                    {[epoch |-> call[c].epoch, ep |-> acq.endpoint,
                      generation |-> wire[acq.endpoint].generation]}]_vars

(* A value becomes last known good only while the endpoint and generation  *)
(* that delivered it are live: never after Close, retirement or fencing.   *)
LastGoodIsLive ==
    [][\A op \in Operations : \A good \in {retained'[op].good} \ {NoRecord} :
          retained[op].good = NoRecord \/ retained[op].good.epoch # good.epoch =>
              /\ ~acq.closed
              /\ Usable(good.ep) /\ wire[good.ep].generation = good.generation]_vars

(* Close is final and lets go of everything: in the end every endpoint is  *)
(* closed, the slot is free and the state is closed, for good.             *)
CloseReleases ==
    acq.closed ~> [](/\ acq.state = "closed" /\ ~acq.busy
                     /\ \A e \in Endpoints : wire[e].status # "open")

(* While Run runs, an unavailable lifecycle is restarted. *)
RunRestarts ==
    acq.state = "unavailable" ~> (run \in {"restarted", "ended"} \/ acq.state # "unavailable")
=============================================================================
