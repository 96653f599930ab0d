----------------------------- MODULE MCServices -----------------------------
(***************************************************************************)
(* Instances of the services that keep state for a whole session and share *)
(* none in these modules. The focus of a behaviour is the one service that *)
(* takes steps in it, so that TLC visits the union of their state spaces   *)
(* and not the product.                                                    *)
(***************************************************************************)
EXTENDS Storage, Gateway, Otp, Session, Commands, Wake, TLC

CONSTANT Services       \* the services of the instance

ASSUME ServicesAssumption ==
    Services \subseteq {"manifests", "blobs", "gateway", "otp", "session", "commands", "wake"}

VARIABLE focus

serviceVars ==
    <<focus, storageVars, gatewayVars, otpVars, sessionVars, commandVars, wakeVars>>

-----------------------------------------------------------------------------

\* An agent without scopes, and one for every folder action and for signing.
MCScopes ==
    {<<>>, <<[folders |-> Folder, actions |-> FolderActions \cup SharedActions,
              ceiling |-> NoCeiling]>>}

\* One client at a time on the desktop, where the registry moves as well.
MCMaxConnections == [h \in BOOLEAN |-> IF h THEN 2 ELSE 1]

\* A limit that the clock reaches, and one that only the other limit cuts.
MCLimits == {<<1, 2>>, <<2, 2>>}
MCDefaultLimits == <<1, 2>>

\* The two elements of each of these sets are interchangeable, so a state and
\* the one with all pairs exchanged at once are the same.
Pairs == {Container, Conn, Key, Req, Reveal, Unlocker, Cmd, Target, WakeCall}
Other(x) == CHOOSE y \in UNION {S \in Pairs : x \in S} : y # x
Symmetry ==
    {[x \in UNION Pairs |-> IF exchanged THEN Other(x) ELSE x] : exchanged \in BOOLEAN}

-----------------------------------------------------------------------------

\* The gateway has several initial states, of which a behaviour with another
\* focus takes one.
OneGateway == ~headless /\ \A f \in Folder : modes[f] = Direct

Init ==
    /\ focus \in Services
    /\ StorageInit
    /\ GatewayInit
    /\ focus # "gateway" => OneGateway
    /\ OtpInit
    /\ SessionInit
    /\ CommandsInit
    /\ WakeInit

\* The steps of one service leave the others as they are.
Only(name) == focus = name /\ UNCHANGED focus

\* The container store is visited in two parts, whose product is out of reach:
\* every history of the manifest over empty folders, and every history of the
\* blobs under a manifest that only this program writes.
ManifestSteps == UNCHANGED <<files, active>> /\ StorageNext
BlobSteps ==
    /\ StorageNext
    /\ manifest'.tag = "valid" /\ kept' = {}

StorageParts ==
    \/ Only("manifests") /\ ManifestSteps
    \/ Only("blobs") /\ BlobSteps

Next ==
    \/ /\ StorageParts
       /\ UNCHANGED <<gatewayVars, otpVars, sessionVars, commandVars, wakeVars>>
    \/ /\ Only("gateway") /\ GatewayNext
       /\ UNCHANGED <<storageVars, otpVars, sessionVars, commandVars, wakeVars>>
    \/ /\ Only("otp") /\ OtpNext
       /\ UNCHANGED <<storageVars, gatewayVars, sessionVars, commandVars, wakeVars>>
    \/ /\ Only("session") /\ SessionNext
       /\ UNCHANGED <<storageVars, gatewayVars, otpVars, commandVars, wakeVars>>
    \/ /\ Only("commands") /\ CommandsNext
       /\ UNCHANGED <<storageVars, gatewayVars, otpVars, sessionVars, wakeVars>>
    \/ /\ Only("wake") /\ WakeNext
       /\ UNCHANGED <<storageVars, gatewayVars, otpVars, sessionVars, commandVars>>

Spec == Init /\ [][Next]_serviceVars
=============================================================================
