--------------------------- MODULE CatalogueSelection ---------------------------
(***************************************************************************)
(* The two generated Huawei catalogues as a program meets them: each is    *)
(* read once, whatever it holds, and a question is answered from what that *)
(* reading left; an answer changes nothing, so one question is enough.     *)
(***************************************************************************)
EXTENDS GatewaySelection

CONSTANTS
    None,
    InverterFiles, InverterInputs,  \* catalogues that may be embedded, and questions
    GatewayFiles, GatewayInputs

VARIABLE choice

SelectionInit == choice = None

ReadInverters ==
    /\ choice = None
    /\ \E files \in InverterFiles :
           choice' = [side |-> "inverter", files |-> files, loaded |-> LoadInverterCatalogue(files),
                      input |-> None, decision |-> None]

ReadGateways ==
    /\ choice = None
    /\ \E files \in GatewayFiles :
           choice' = [side |-> "gateway", files |-> files, loaded |-> LoadGatewayCatalogue(files),
                      input |-> None, decision |-> None]

AskInverter ==
    /\ choice # None /\ choice.side = "inverter" /\ choice.input = None
    /\ \E input \in InverterInputs :
           choice' = [choice EXCEPT !.input = input, !.decision = DecideInverter(choice.loaded, input)]

AskGateway ==
    /\ choice # None /\ choice.side = "gateway" /\ choice.input = None
    /\ \E input \in GatewayInputs :
           choice' = [choice EXCEPT !.input = input, !.decision = DecideGateway(choice.loaded, input)]

SelectionNext == ReadInverters \/ ReadGateways \/ AskInverter \/ AskGateway

(* Every entry that a reading leaves can be told apart by its source: its  *)
(* card is one whose registers give it one address space, and a wire alias *)
(* is never shared by two identifiers of one card by way of its scope.     *)
LoadedIsAttributed ==
    \A k \in DOMAIN choice.loaded :
        LET e == choice.loaded[k] IN
        /\ e.scope \in {"INVERTER_MAP", "C81_MAP"} /\ e.floor # NoText
        /\ e.scope = "C81_MAP" => e.aliases = {}
        /\ \A j \in DOMAIN choice.loaded : choice.loaded[j].card = e.card => choice.loaded[j].scope = e.scope

(* A decision is what the evidence and the whole catalogue justify.        *)
SelectionIsJustified ==
    choice # None =>
        /\ choice.side = "inverter" => LoadedIsAttributed
        /\ choice.input # None /\ choice.side = "inverter" =>
               InverterJustified(choice.loaded, choice.input, choice.decision)
        /\ choice.input # None /\ choice.side = "gateway" =>
               GatewayJustified(choice.files, choice.input, choice.decision)

=================================================================================
