-------------------------- MODULE MCExchangeLayer --------------------------
(* TLC instances of ExchangeLayer: what the peer sends.                    *)
EXTENDS ExchangeLayer

Kind(x, fromInitiator, reliable, known) ==
    [xid |-> x, fromInitiator |-> fromInitiator, reliable |-> reliable,
     known |-> known]

(* requests, reliable or not, of known or unknown protocols, on one        *)
(* exchange of the peer, and its answers on one of the device              *)
MixedKinds ==
    {Kind(0, TRUE, TRUE, TRUE), Kind(0, TRUE, FALSE, TRUE),
     Kind(0, TRUE, TRUE, FALSE), Kind(0, FALSE, TRUE, TRUE)}

=============================================================================
