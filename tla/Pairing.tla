-------------------------------- MODULE Pairing --------------------------------
(***************************************************************************)
(* The daemon's identity on disk and the clients that pin it: provisioning, *)
(* adoption and loading, file by file (fq-edge auth.rs, fq-daemon           *)
(* edge_identity.rs), and `fq connect`, which checks a fingerprint and a    *)
(* token against the daemon and stores them in a file all of the client's   *)
(* processes share (fq-cli connections.rs).  The daemon and the clients may *)
(* be killed between any two writes, and an operator may delete the         *)
(* identity's directory to rotate it, or the copy an older release left.    *)
(*                                                                          *)
(* An identity is its generation: a number.  A file holds the generation    *)
(* whose part it is, None when absent, and Torn when created but empty.     *)
(***************************************************************************)
EXTENDS Integers, Sequences, FiniteSets

CONSTANTS Clients,     \* processes of `fq connect`
          AddressOf,   \* the daemon each pairs with; "here" is the one modelled
          MaxIdentities,   \* bound: identities provisioned
          MaxKills     \* bound: kills and deletions

None == 0
Torn == -1
Parts4 == {"key", "root", "token", "cert"}

VARIABLES pgDir,     \* <state>/edge
          pgLegacy,  \* <cache>/edge: None or the identity an older release left whole
          pgMinted,  \* identities provisioned so far
          pgDaemon,  \* [at, id, todo]: "down", "saving" or "serving"
          pgServed,  \* history: identities served since the last rotation
          pgOld,     \* history: the identity the older release left, if any
          pgClient,  \* [at, id, read] per process of `fq connect`
          pgFile,    \* connections.toml: address -> identity pinned, or None
          pgLock,    \* who holds .connections.lock
          pgPaired,  \* history: addresses whose connect reported success
          pgKills

pairingVars == <<pgDir, pgLegacy, pgMinted, pgDaemon, pgServed, pgOld, pgClient, pgFile,
                 pgLock, pgPaired, pgKills>>

identityVars == <<pgDir, pgLegacy, pgMinted, pgDaemon, pgServed, pgOld>>
clientVars   == <<pgClient, pgFile, pgLock, pgPaired>>

Empty     == [f \in Parts4 |-> None]
Daemons == {AddressOf[c] : c \in Clients}
NotUp      == [at |-> "down", id |-> None, todo |-> << >>]
Away      == [at |-> "away", id |-> None, read |-> [a \in Daemons |-> None]]

\* A fresh host, or one whose older release served generation 1 from the cache.
PairingInit ==
    /\ pgDir = Empty
    /\ pgLegacy \in {None, 1}
    /\ pgMinted = pgLegacy
    /\ pgServed = IF pgLegacy = None THEN {} ELSE {pgLegacy}
    /\ pgDaemon = NotUp /\ pgOld = pgLegacy /\ pgKills = 0
    /\ pgClient = [c \in Clients |-> Away]
    /\ pgFile = [a \in Daemons |-> None] /\ pgLock = {} /\ pgPaired = {}

-----------------------------------------------------------------------------
\* try_load: the certificate marks a whole identity; private parts without one
\* are a refusal.
Whole   == pgDir["cert"] # None
Partial == ~Whole /\ \E f \in {"key", "root", "token"} : pgDir[f] # None

\* load reads every file; the listener cannot serve a torn certificate.
Loads == \A f \in {"cert", "key", "root"} : pgDir[f] \notin {None, Torn}

\* save and save_minted: the certificate is written last.
SaveTokenLast == <<"key", "root", "cert", "token">>
SaveMinted    == <<"key", "root", "token", "cert">>
SaveAdopted   == <<"key", "root", "cert">>

ServeAs(id) ==
    /\ pgDaemon' = [at |-> "serving", id |-> id, todo |-> << >>]
    /\ pgServed' = pgServed \cup {id}

\* load_or_adopt: what is here, else what the older release left, else a new one.
LoadOrMint ==
    /\ pgDaemon.at = "down" /\ ~Partial /\ (Whole => Loads)
    /\ IF Whole THEN ServeAs(pgDir["cert"]) /\ UNCHANGED pgMinted
       ELSE /\ pgMinted < MaxIdentities
            /\ pgMinted' = pgMinted + 1
            /\ pgDaemon' = [at |-> "saving", id |-> pgMinted', todo |-> SaveMinted]
            /\ UNCHANGED pgServed
    /\ UNCHANGED <<pgDir, pgLegacy, pgOld, clientVars, pgKills>>

LoadOrAdopt ==
    /\ pgDaemon.at = "down" /\ ~Partial /\ (Whole => Loads)
    /\ IF Whole THEN ServeAs(pgDir["cert"]) /\ UNCHANGED pgMinted
       ELSE IF pgLegacy # None
         THEN /\ pgDaemon' = [at |-> "saving", id |-> pgLegacy, todo |-> SaveAdopted]
              /\ UNCHANGED <<pgMinted, pgServed>>
       ELSE /\ pgMinted < MaxIdentities
            /\ pgMinted' = pgMinted + 1
            /\ pgDaemon' = [at |-> "saving", id |-> pgMinted', todo |-> SaveMinted]
            /\ UNCHANGED pgServed
    /\ UNCHANGED <<pgDir, pgLegacy, pgOld, clientVars, pgKills>>

\* One file.  write_secret creates what must not exist yet; the certificate, the
\* last, is created and then filled.
SaveFile ==
    /\ pgDaemon.at = "saving" /\ pgDaemon.todo # << >>
    /\ LET f == Head(pgDaemon.todo)
       IN  IF f # "cert" /\ pgDir[f] # None THEN pgDaemon' = NotUp /\ UNCHANGED pgDir
           ELSE IF f = "cert" /\ pgDir[f] = None
             THEN pgDir' = [pgDir EXCEPT ![f] = Torn] /\ UNCHANGED pgDaemon
           ELSE /\ pgDir' = [pgDir EXCEPT ![f] = pgDaemon.id]
                /\ pgDaemon' = [pgDaemon EXCEPT !.todo = Tail(@)]
    /\ UNCHANGED <<pgLegacy, pgMinted, pgServed, pgOld, clientVars, pgKills>>

Saved ==
    /\ pgDaemon.at = "saving" /\ pgDaemon.todo = << >>
    /\ ServeAs(pgDaemon.id)
    /\ UNCHANGED <<pgDir, pgLegacy, pgMinted, pgOld, clientVars, pgKills>>

DaemonKilled ==
    /\ pgKills < MaxKills /\ pgDaemon.at # "down"
    /\ pgKills' = pgKills + 1
    /\ pgDaemon' = NotUp
    /\ UNCHANGED <<pgDir, pgLegacy, pgMinted, pgServed, pgOld, clientVars>>

\* What try_load's refusal asks for, and the operator's way to rotate.
DeleteDirectory ==
    /\ pgKills < MaxKills /\ pgDaemon.at = "down" /\ pgDir # Empty
    /\ pgKills' = pgKills + 1
    /\ pgDir' = Empty /\ pgServed' = {}
    /\ UNCHANGED <<pgLegacy, pgMinted, pgDaemon, pgOld, clientVars>>

DeleteLegacy ==
    /\ pgLegacy # None /\ pgDaemon.at = "serving"
    /\ pgLegacy' = None
    /\ UNCHANGED <<pgDir, pgMinted, pgDaemon, pgServed, pgOld, clientVars, pgKills>>

-----------------------------------------------------------------------------
\* What answers at an address: this daemon, or one elsewhere that is always there.
AnswersAt(a) == IF a # "here" THEN 1 ELSE IF pgDaemon.at = "serving" THEN pgDaemon.id ELSE None

\* The fingerprint is the flag's (the operator reads it from the daemon's file),
\* the one pinned before, or the one probed and confirmed.
Expect(c) ==
    /\ pgClient[c].at = "away"
    /\ \E id \in {pgFile[AddressOf[c]], AnswersAt(AddressOf[c])} \ {None} :
           pgClient' = [pgClient EXCEPT ![c] = [@ EXCEPT !.at = "dialling", !.id = id]]
    /\ UNCHANGED <<identityVars, pgFile, pgLock, pgPaired, pgKills>>

\* edge_client: the certificate matches the pin and the token the root, or nothing is stored.
Dial(c) ==
    /\ pgClient[c].at = "dialling"
    /\ pgClient' = [pgClient EXCEPT ![c] =
           IF AnswersAt(AddressOf[c]) = @.id THEN [@ EXCEPT !.at = "locking"] ELSE Away]
    /\ UNCHANGED <<identityVars, pgFile, pgLock, pgPaired, pgKills>>

\* store_connection: under the lock, read the file, insert, replace it by a rename.
LockFileFreely(c) ==
    /\ pgClient[c].at = "locking"
    /\ pgLock' = pgLock \cup {c}
    /\ pgClient' = [pgClient EXCEPT ![c] = [@ EXCEPT !.at = "storing", !.read = pgFile]]
    /\ UNCHANGED <<identityVars, pgFile, pgPaired, pgKills>>

LockFile(c) ==
    /\ pgClient[c].at = "locking" /\ pgLock = {}
    /\ pgLock' = pgLock \cup {c}
    /\ pgClient' = [pgClient EXCEPT ![c] = [@ EXCEPT !.at = "storing", !.read = pgFile]]
    /\ UNCHANGED <<identityVars, pgFile, pgPaired, pgKills>>

Store(c) ==
    /\ pgClient[c].at = "storing"
    /\ pgFile' = [pgClient[c].read EXCEPT ![AddressOf[c]] = pgClient[c].id]
    /\ pgLock' = pgLock \ {c}
    /\ pgPaired' = pgPaired \cup {AddressOf[c]}
    /\ pgClient' = [pgClient EXCEPT ![c] = Away]
    /\ UNCHANGED <<identityVars, pgKills>>

\* The kernel drops the lock of a process that dies.
ClientKilled(c) ==
    /\ pgKills < MaxKills /\ pgClient[c].at # "away"
    /\ pgKills' = pgKills + 1
    /\ pgClient' = [pgClient EXCEPT ![c] = Away]
    /\ pgLock' = pgLock \ {c}
    /\ UNCHANGED <<identityVars, pgFile, pgPaired>>

PairingNext ==
    \/ LoadOrAdopt \/ SaveFile \/ Saved \/ DaemonKilled
    \/ DeleteDirectory \/ DeleteLegacy
    \/ \E c \in Clients : Expect(c) \/ Dial(c) \/ LockFile(c) \/ Store(c) \/ ClientKilled(c)

PairingSpec == PairingInit /\ [][PairingNext]_pairingVars

-----------------------------------------------------------------------------
Serving == pgDaemon.at = "serving"

(* save_minted writes the certificate last: an identity this host minted is *)
(* served only with the admin token minted under it on disk, so a first run *)
(* killed half way never leaves a daemon that nobody can pair with.         *)
TokenBesideIdentity ==
    (Serving /\ pgDaemon.id # pgOld) => pgDir["token"] = pgDaemon.id

(* Clients pin what the daemon served; it serves the same until an operator *)
(* deletes the directory, across kills, refusals and the move out of the    *)
(* cache directory.                                                         *)
PinsHold == Cardinality(pgServed) <= 1

(* store_connection: a pairing that was reported stays in the file whatever *)
(* other connects run, and are killed, beside it.                           *)
PairingsKept == \A a \in pgPaired : pgFile[a] # None
=============================================================================
