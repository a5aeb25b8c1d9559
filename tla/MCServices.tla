----------------------------- MODULE MCServices -----------------------------
(***************************************************************************)
(* One instance of the parts of the program that share no state with one   *)
(* another: part says which of them a behaviour is about; the others stay  *)
(* as they are.                                                            *)
(***************************************************************************)
EXTENDS SlotGeneration, ProviderClient, RateLimit, RequestPath, KeyCache, Publication, Serve

CONSTANTS siteA, siteB, w1, w2, Parts

VARIABLE part

Nearby == {siteA, siteB} \X {siteA, siteB}

CommandMixes == {
    {"CreateLocation", "SetLocationStatus"},
    {"CreateLocation", "UpdateLocation", "Seed"},
    {"UpdateConfiguration", "SetProviderStatus", "Seed"},
    {"Tick", "SetLocationStatus", "UpdateConfiguration"} }

\* Only NoRegression, which is about batches in turn, mentions the evidence.
EvidenceBound == [o \in BOOLEAN |-> IF o THEN 0 ELSE 2]

-----------------------------------------------------------------------------
Init ==
    /\ part \in Parts
    /\ SlotInit /\ (part # "catalog" => mix = {"Tick", "SetLocationStatus", "UpdateConfiguration"} /\ config = None)
    /\ ClientInit /\ (part # "client" => guarded)
    /\ LimitInit /\ RequestInit
    /\ KeyInit /\ (part # "keys" => published = Kids)
    /\ PublicationInit /\ (part # "publication" => overlap)
    /\ ServeInit /\ (part # "serve" => mode = "all")

Next ==
    /\ \/ part = "catalog" /\ SlotNext
       \/ part # "catalog" /\ UNCHANGED slotVars
    /\ \/ part = "client" /\ ClientNext
       \/ part # "client" /\ UNCHANGED clientVars
    /\ \/ part = "limit" /\ LimitNext
       \/ part # "limit" /\ UNCHANGED limitVars
    /\ \/ part = "request" /\ RequestNext
       \/ part # "request" /\ UNCHANGED requestVars
    /\ \/ part = "keys" /\ KeyNext
       \/ part # "keys" /\ UNCHANGED keyVars
    /\ \/ part = "publication" /\ PublicationNext
       \/ part # "publication" /\ UNCHANGED publicationVars
    /\ \/ part = "serve" /\ ServeNext
       \/ part # "serve" /\ UNCHANGED serveVars
    /\ UNCHANGED part

Spec ==
    Init /\ [][Next]_<<part, slotVars, clientVars, limitVars, requestVars, keyVars,
                       publicationVars, serveVars>>

\* The same two model values are the actors of every part.
Actors == Permutations({w1, w2})

\* Every variable of the part has its type.
ServicesTypeOK ==
    /\ part = "catalog" => CatalogTypeOK /\ SlotTypeOK
    /\ part = "client" => ClientTypeOK
    /\ part = "limit" => LimitTypeOK
    /\ part = "request" => RequestTypeOK
    /\ part = "keys" => KeyTypeOK
    /\ part = "publication" => PublicationTypeOK
    /\ part = "serve" => ServeTypeOK
=============================================================================
