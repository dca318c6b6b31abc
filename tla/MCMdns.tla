--------------------------------- MODULE MCMdns ---------------------------------
(***************************************************************************)
(* Two nodes of one fabric, an interface with two addresses and one with a  *)
(* single, shared one, and queries that each use a rule of the responder.   *)
(***************************************************************************)
EXTENDS Mdns

f1 == [compressed_fabric_id |-> 1, node_id |-> 1]
f2 == [compressed_fabric_id |-> 1, node_id |-> 2]
MCFabric == {f1, f2}

MCPartialOf == <<0, 1>>
MCInterface == {1, 2}
MCAddress == <<{1, 2}, {2}>>

Q(name, type, class) == [name |-> name, type |-> type, class |-> class]
Known(name, type, fresh, data) ==
    [name |-> name, type |-> type, fresh |-> fresh, data |-> data]
Base == <<"instance", "base">>
Window == <<"instance", "window">>
Host == <<"host", 0>>

MCQuery == {
    [questions |-> {Q(ServicesName, "PTR", "IN")},
     known |-> {Known(ServicesName, "PTR", TRUE, {MatterName})}],
    [questions |-> {Q(MatterName, "PTR", "IN")},
     known |-> {Known(MatterName, "PTR", TRUE, {Base}),
                Known(Base, "SRV", FALSE, {<<"matter port", Host>>})}],
    [questions |-> {Q(CommissioningName, "PTR", "QU"), Q(Window, "TXT", "IN")},
     known |-> {Known(Window, "TXT", TRUE,
                      {<<"device", [D |-> 1, CM |-> FALSE]>>})}],
    [questions |-> {Q(<<"_L", 2>>, "PTR", "IN"), Q(<<"_S", 1>>, "PTR", "IN"),
                    Q(CoapsName, "PTR", "IN")},
     known |-> {Known(MatterName, "PTR", TRUE, {Base, Window})}],
    [questions |-> {Q(FabricName, "PTR", "IN"), Q(Base, "SRV", "other")},
     known |-> {Known(FabricName, "PTR", TRUE, {<<"fabric instance", f1>>})}],
    [questions |-> {Q(<<"_I", 1>>, "PTR", "IN")},
     known |-> {Known(<<"fabric instance", f2>>, "SRV", TRUE,
                      {<<"matter port", Host>>})}],
    [questions |-> {Q(<<"fabric instance", f1>>, "SRV", "IN"),
                    Q(<<"coaps instance", "base">>, "TXT", "IN"),
                    Q(Host, "AAAA", "QU")},
     known |-> {Known(Host, "AAAA", TRUE, {<<"address", 1>>})}]}
=============================================================================
