----------------------------- MODULE Infrastructure -----------------------------
(***************************************************************************)
(* EnsureInfrastructure and ValidateInfrastructure (server/revision.go),   *)
(* and the start of a process (validateWorkerStartup).                     *)
(*                                                                         *)
(* A writer makes what is missing: two collections, their indexes, the     *)
(* manifest and its own registration.  A reader makes nothing.  Both hold  *)
(* the mutex of their process from the first call to the last, and a       *)
(* process is ready once for all.  Every call may fail, and a process may  *)
(* crash between two of them.                                              *)
(***************************************************************************)
EXTENDS FiniteSets

CONSTANTS
  InfraCallers,   \* goroutines that need the infrastructure
  InfraProcs,     \* processes, each of a device of its own
  InfraProc,      \* the process of each goroutine
  Fingerprints,   \* what expectedManifest makes of model digest and settings
  Dimension,      \* the vector dimension a fingerprint contains
  Setups,         \* the configurations a process may be started with
  Absent          \* not there

ASSUME InfraAssumption ==
  /\ InfraProc \in [InfraCallers -> InfraProcs] /\ DOMAIN Dimension = Fingerprints
  /\ Setups \subseteq [fingerprint : Fingerprints, role : {"writer", "reader"}, credential : {"read", "write"}]
  /\ Absent \notin Fingerprints /\ (\A f \in Fingerprints : Dimension[f] # Absent)

VARIABLES
  setup,            \* the configuration of each process
  dataCollection,   \* the dimension of its vectors
  controlMade,      \* the control collection exists
  manifest,         \* the collection_manifest record
  registered,       \* devices with a writer_registration
  ready,            \* infrastructureReady
  serving,          \* processes whose start has been validated
  doing,            \* where a goroutine stands
  raced             \* history: two writers of different settings found no manifest

stored    == <<dataCollection, controlMade, manifest, registered>>
infraVars == <<setup, stored, ready, serving, doing, raced>>

Founded(f) == dataCollection = Dimension[f] /\ controlMade = TRUE /\ manifest = f

InfraInit ==
  /\ setup \in [InfraProcs -> Setups]
  /\ \/ dataCollection = Absent /\ controlMade = FALSE /\ manifest = Absent /\ registered = {}
     \/ \E f \in Fingerprints : Founded(f) /\ \E p \in InfraProcs : registered = {p}
  /\ ready = {} /\ serving = {} /\ raced = FALSE
  /\ doing = [c \in InfraCallers |-> "idle"]

At(c, step)   == doing[c] = step
GoTo(c, step) == doing' = [doing EXCEPT ![c] = step]

Outside == {"idle", "wait"}

\* infrastructureMu
InfraFree(p) == \A c \in InfraCallers : InfraProc[c] = p => doing[c] \in Outside

CallInfra(c) ==
  /\ At(c, "idle") /\ GoTo(c, "wait")
  /\ UNCHANGED <<setup, raced, stored, ready, serving>>

\* The mutex is waited for whatever the context of the caller says.
LockInfra(c) ==
  /\ At(c, "wait") /\ InfraFree(InfraProc[c])
  /\ GoTo(c, IF InfraProc[c] \in ready THEN "capabilities" ELSE "data")
  /\ UNCHANGED <<setup, raced, stored, ready, serving>>

\* The dimension and the digest are asked for first; either call may fail.
Writes(c) == setup[InfraProc[c]].role = "writer"
Mine(c)   == setup[InfraProc[c]].fingerprint
Empowered(c) == setup[InfraProc[c]].credential = "write"

(***************************************************************************)
(* A call fails, is refused to the credential, or finds what is there      *)
(* incompatible; the deferred unlock follows.                              *)
(***************************************************************************)
InfraFails(c) ==
  /\ doing[c] \notin Outside /\ GoTo(c, "idle")
  /\ UNCHANGED <<setup, raced, stored, ready, serving>>

(***************************************************************************)
(* CollectionExists, and CreateCollection or validateExistingCollection.   *)
(***************************************************************************)
SameSchema(c) == dataCollection = Dimension[Mine(c)]

SeesData(c) ==
  /\ At(c, "data")
  /\ \/ SameSchema(c) /\ GoTo(c, "control")
     \/ dataCollection = Absent /\ Writes(c) /\ GoTo(c, "makeData")
  /\ UNCHANGED <<setup, raced, stored, ready, serving>>

VectorSize(c) == Dimension[Mine(c)]

\* A racing creation is answered AlreadyExists, and that is a failure.
MakesData(c) ==
  /\ At(c, "makeData") /\ dataCollection = Absent /\ Empowered(c)
  /\ dataCollection' = VectorSize(c) /\ GoTo(c, "control")
  /\ UNCHANGED <<setup, raced, controlMade, manifest, registered, ready, serving>>

SeesControl(c) ==
  /\ At(c, "control")
  /\ \/ controlMade /\ GoTo(c, IF Writes(c) THEN "indexes" ELSE "manifest")
     \/ ~controlMade /\ Writes(c) /\ GoTo(c, "makeControl")
  /\ UNCHANGED <<setup, raced, stored, ready, serving>>

MakesControl(c) ==
  /\ At(c, "makeControl") /\ ~controlMade /\ Empowered(c)
  /\ controlMade' = TRUE /\ GoTo(c, "indexes")
  /\ UNCHANGED <<setup, raced, dataCollection, manifest, registered, ready, serving>>

\* ensurePayloadIndexes creates what may be there already.
MakesIndexes(c) ==
  /\ At(c, "indexes") /\ Empowered(c) /\ GoTo(c, "manifest")
  /\ UNCHANGED <<setup, raced, stored, ready, serving>>

(***************************************************************************)
(* ensureImmutableControl: the record is read; if there is none, it is     *)
(* written by upsertControl, which reads it again to learn the version it  *)
(* replaces (ControlRecord has its inside).  So a writer that has found    *)
(* none replaces what another has created in between.                      *)
(***************************************************************************)
Compatible(c) == manifest = Mine(c)

(* Mutant: a manifest of another model is replaced. *)
MissingOrOther(c) == manifest # Mine(c)

Missing(c) == manifest = Absent

SeesManifest(c) ==
  /\ At(c, "manifest")
  /\ \/ Compatible(c) /\ GoTo(c, "registration") /\ UNCHANGED raced
     \/ /\ Missing(c) /\ Writes(c) /\ GoTo(c, "makeManifest")
        /\ raced' = IF \E d \in InfraCallers : At(d, "makeManifest") /\ Mine(d) # Mine(c)
                    THEN TRUE ELSE raced
  /\ UNCHANGED <<setup, stored, ready, serving>>

MakesManifest(c) ==
  /\ At(c, "makeManifest") /\ Empowered(c)
  /\ manifest' = Mine(c) /\ GoTo(c, "registration")
  /\ UNCHANGED <<setup, raced, dataCollection, controlMade, registered, ready, serving>>

Registers(c) ==
  /\ At(c, "registration") /\ GoTo(c, "capabilities")
  /\ IF Writes(c) THEN /\ InfraProc[c] \in registered \/ Empowered(c)
                       /\ registered' = registered \union {InfraProc[c]}
                  ELSE registered # {} /\ UNCHANGED registered
  /\ ready' = ready \union {InfraProc[c]}
  /\ UNCHANGED <<setup, raced, dataCollection, controlMade, manifest, serving>>

(***************************************************************************)
(* ValidateCredentialCapabilities: a reader's credential must be refused   *)
(* its writes, and a writer's must be granted them.                        *)
(***************************************************************************)
Validates(c) ==
  LET p == InfraProc[c]
  IN  /\ At(c, "capabilities") /\ setup[p].credential = (IF Writes(c) THEN "write" ELSE "read")
      /\ serving' = serving \union {p} /\ GoTo(c, "idle")
      /\ UNCHANGED <<setup, raced, stored, ready>>

InfraCrash(p) ==
  /\ ready' = ready \ {p} /\ serving' = serving \ {p}
  /\ doing' = [c \in InfraCallers |-> IF InfraProc[c] = p THEN "idle" ELSE doing[c]]
  /\ UNCHANGED <<setup, raced, stored>>

InfraStep(c) ==
  \/ LockInfra(c) \/ SeesData(c) \/ MakesData(c) \/ SeesControl(c) \/ MakesControl(c)
  \/ MakesIndexes(c) \/ SeesManifest(c) \/ MakesManifest(c) \/ Registers(c) \/ Validates(c)

InfraNext ==
  \/ \E c \in InfraCallers : CallInfra(c) \/ InfraStep(c) \/ InfraFails(c)
  \/ \E p \in InfraProcs : InfraCrash(p)

SharedCallers == {c \in InfraCallers : \E d \in InfraCallers \ {c} : InfraProc[d] = InfraProc[c]}

\* Every call of the clients has a timeout, and Go's mutexes are fair.
InfraFairness ==
  \A c \in InfraCallers :
    WF_infraVars(InfraStep(c) \/ InfraFails(c)) /\ (c \in SharedCallers => SF_infraVars(LockInfra(c)))

InfraSpec == InfraInit /\ [][InfraNext]_infraVars /\ InfraFairness
----------------------------------------------------------------------------
\* The types.
InfraTypeOK ==
  /\ dataCollection \in {Absent} \union {Dimension[f] : f \in Fingerprints}
  /\ controlMade \in BOOLEAN /\ manifest \in Fingerprints \union {Absent}
  /\ registered \subseteq InfraProcs /\ ready \subseteq InfraProcs /\ serving \subseteq InfraProcs
  /\ raced \in BOOLEAN
  /\ doing \in [InfraCallers -> {"idle", "wait", "data", "makeData", "control", "makeControl",
                                 "indexes", "manifest", "makeManifest", "registration", "capabilities"}]

(***************************************************************************)
(* EnsureInfrastructure, ValidateInfrastructure: whatever failed, crashed  *)
(* or was created by another in between, a process that is ready works on  *)
(* collections made for the dimension of its model, with some writer       *)
(* registered; the manifest it works under is that of its settings, unless *)
(* two writers of different settings were founding the hive at once; and   *)
(* one that serves has a credential that can do what its role does, no     *)
(* more.                                                                   *)
(***************************************************************************)
ReadyIsCompatible ==
  /\ \A p \in ready :
       /\ dataCollection = Dimension[setup[p].fingerprint] /\ controlMade = TRUE /\ registered # {}
       /\ manifest # setup[p].fingerprint => raced = TRUE /\ manifest # Absent
  /\ \A p \in serving : /\ setup[p].role = "writer" => p \in registered
                        /\ setup[p].credential = (IF setup[p].role = "writer" THEN "write" ELSE "read")

\* The mutex is held across network calls, but whoever waits for it gets it in the end.
InfraReturns == \A c \in InfraCallers : doing[c] = "wait" ~> doing[c] = "idle"
================================================================================
