------------------------------ MODULE Account ------------------------------
(***************************************************************************)
(* The ACME account (pkg/buckcert/leUser.go, buckcert.go): every renewer   *)
(* loads it from the bucket at its first run, or creates it there, before  *)
(* it has asked for the distributed lock.  Certificates are then ordered   *)
(* as that account, and each successful order publishes CAA records that   *)
(* let no other account order for the zone (RFC 8657, accounturi).         *)
(*                                                                         *)
(* An account is a private key and the CA it is registered at (None: not   *)
(* yet); the CA gives the same account to the same key.                    *)
(***************************************************************************)
EXTENDS Naturals, Sequences

CONSTANTS
    Proc,           \* renewers
    Stray,          \* those with another CLOSET_PASSWORD
    Key,            \* account keys
    CA,             \* ACME directories (LETSENCRYPT_CA_URL)
    Domain,
    Keyed,          \* those with a TSIG key: their zone gets CAA records
    Zone,
    ZonesOf,        \* the zones that enclose a domain, its own first
    Faults,         \* what may go wrong, see FaultKinds
    None

FaultKinds == {"s3read", "s3write", "acme", "dns", "crash", "switch"}

ASSUME ProcAssumption == Stray \subseteq Proc
ASSUME ZoneAssumption ==
    /\ Keyed \subseteq Domain
    /\ ZonesOf \in [Domain -> Seq(Zone) \ {<<>>}]
ASSUME NoneAssumption == None \notin Key \cup CA
ASSUME FaultAssumption == Faults \subseteq FaultKinds

VARIABLES
    configured,     \* LETSENCRYPT_CA_URL as the next process to start finds it
    stored,         \* state/acme_user.json.enc, or None
    local,          \* LETSENCRYPT_USER_KEY_PATH of a process, or None
    registered,     \* the keys that have an account, by CA
    caa,            \* the account named by a zone's CAA records, or None
    pc,
    ca,             \* the CA of a process
    user            \* its account

bucket == <<stored, local>>
world == <<registered, caa>>
vars == <<configured, bucket, world, pc, ca, user>>

User == [key : Key, at : CA \cup {None}]
Stored == [user : User, stray : BOOLEAN]
NoUser == [key |-> None, at |-> None]
Place == {"off", "load", "head", "put", "reload", "register", "save", "ready"}

ASSUME RecordAssumption == None \notin User \cup Stored

AccountTypeOK ==
    /\ configured \in CA
    /\ stored \in Stored \cup {None}
    /\ local \in [Proc -> User \cup {None}]
    /\ registered \in [CA -> SUBSET Key]
    /\ caa \in [Zone -> User \cup {None}]
    /\ pc \in [Proc -> Place]
    /\ ca \in [Proc -> CA]
    /\ user \in [Proc -> User \cup {NoUser}]
    /\ \A p \in Proc : pc[p] \in {"head", "put", "register", "save", "ready"} => user[p] \in User

Fails(fault) == fault \in Faults

(* An empty bucket; a process may have the account file of an older version*)
(* of the program, registered at the configured CA or not at all.          *)
Init ==
    /\ configured \in CA
    /\ stored = None
    /\ local \in [Proc -> [key : Key, at : {configured, None}] \cup {None}]
    /\ registered = [c \in CA |->
            {k \in Key : \E p \in Proc : local[p] = [key |-> k, at |-> c]}]
    /\ caa = [z \in Zone |-> None]
    /\ pc = [p \in Proc |-> "off"]
    /\ ca = [p \in Proc |-> configured]
    /\ user = [p \in Proc |-> NoUser]

-----------------------------------------------------------------------------
GoTo(p, place) == pc' = [pc EXCEPT ![p] = place]

(* An error here is returned up to initBuckcert, whose log.Fatal ends the  *)
(* process.                                                                *)
Fatal(p) == GoTo(p, "off") /\ user' = [user EXCEPT ![p] = NoUser]

(* decryptAES, parseUser: what another password has encrypted is an error. *)
Readable(p) == stored.stray = (p \in Stray)

(* A new key pair is random: nobody has it.                                *)
Fresh(key) ==
    /\ stored # None => key # stored.user.key
    /\ \A p \in Proc : key # user[p].key /\ (local[p] # None => key # local[p].key)
    /\ \A c \in CA : key \notin registered[c]

Start(p) ==
    /\ pc[p] = "off"
    /\ GoTo(p, "load")
    /\ ca' = [ca EXCEPT ![p] = configured]
    /\ UNCHANGED <<configured, bucket, world, user>>

(* LoadACMEUser, then loadLocalOrNewUser when there is no object.          *)
(* Mutant: the loaded account is not kept.                                 *)
NotTaken(p) == UNCHANGED user
Take(p) == user' = [user EXCEPT ![p] = stored.user]

Load(p) ==
    /\ pc[p] = "load"
    /\ \/ stored # None /\ Readable(p) /\ Take(p) /\ GoTo(p, "register")
       \/ stored # None /\ ~Readable(p) /\ Fatal(p)
       \/ Fails("s3read") /\ Fatal(p)
       \/ /\ stored = None
          /\ IF local[p] # None
             THEN user' = [user EXCEPT ![p] = local[p]]
             ELSE \E key \in Key :
                    /\ Fresh(key)
                    /\ user' = [user EXCEPT ![p] = [key |-> key, at |-> None]]
          /\ GoTo(p, "head")
    /\ UNCHANGED <<configured, bucket, world, ca>>

(* StoreACMEUserIfNotExists: a HeadObject, then a plain PutObject.         *)
(* Mutant: without the HeadObject.                                         *)
AlwaysPut == "put"
HeadResult == IF stored = None THEN "put" ELSE "reload"

HeadUser(p) ==
    /\ pc[p] = "head"
    /\ \/ GoTo(p, HeadResult) /\ UNCHANGED user
       \/ Fails("s3read") /\ Fatal(p)
    /\ UNCHANGED <<configured, bucket, world, ca>>

(* A write that the caller sees fail may have taken effect.                *)
Write(p) == stored' = [user |-> user[p], stray |-> p \in Stray]

PutUser(p) ==
    /\ pc[p] = "put"
    /\ \/ Write(p) /\ GoTo(p, "register") /\ UNCHANGED user
       \/ Fails("s3write") /\ (Write(p) \/ UNCHANGED stored) /\ Fatal(p)
    /\ UNCHANGED <<configured, local, world, ca>>

(* The object was there: it is loaded instead of the process's own.        *)
Reload(p) ==
    /\ pc[p] = "reload"
    /\ \/ stored # None /\ Readable(p) /\ Take(p) /\ GoTo(p, "register")
       \/ stored = None /\ Fatal(p)
       \/ stored # None /\ ~Readable(p) /\ Fatal(p)
       \/ Fails("s3read") /\ Fatal(p)
    /\ UNCHANGED <<configured, bucket, world, ca>>

-----------------------------------------------------------------------------
(* initClient, which asks the CA for its directory, then register: an      *)
(* account that has a registration is left alone, whichever CA it is from. *)
(* The CA may have made the account when the call fails.                   *)
(* Mutant: any account is taken for a registered one.                      *)
NeverRegisters(p) == TRUE
Registered(p) == user[p].at # None

Register(p) ==
    /\ pc[p] = "register"
    /\ \/ /\ Registered(p)
          /\ GoTo(p, "ready") /\ UNCHANGED <<registered, user>>
       \/ /\ ~Registered(p)
          /\ registered' = [registered EXCEPT ![ca[p]] = @ \cup {user[p].key}]
          /\ \/ GoTo(p, "save") /\ user' = [user EXCEPT ![p].at = ca[p]]
             \/ Fails("acme") /\ Fatal(p)
       \/ Fails("acme") /\ Fatal(p) /\ UNCHANGED registered
    /\ UNCHANGED <<configured, bucket, caa, ca>>

(* saveUser: StoreACMEUser overwrites what is there.                       *)
SaveUser(p) ==
    /\ pc[p] = "save"
    /\ \/ Write(p) /\ GoTo(p, "ready") /\ UNCHANGED user
       \/ Fails("s3write") /\ (Write(p) \/ UNCHANGED stored) /\ Fatal(p)
    /\ UNCHANGED <<configured, local, world, ca>>

-----------------------------------------------------------------------------
(* The CA looks for CAA records from the domain's own zone upwards: the    *)
(* first it finds decide.                                                  *)
Permits(d, account) ==
    LET named(i) == caa[ZonesOf[d][i]] IN
    \A i \in DOMAIN ZonesOf[d] :
        named(i) # None /\ (\A j \in 1..(i - 1) : named(j) = None) => named(i) = account

(* A CA serves the accounts it knows, as far as the domain's CAA allows.   *)
CanOrder(p, d) ==
    /\ user[p].at = ca[p] /\ user[p].key \in registered[ca[p]]
    /\ Permits(d, user[p])

(* RequestCert, then UpdateDNS or UpdateCAA, whose failure is only logged: *)
(* the CAA records of the domain's zone are replaced.                      *)
(* Mutant: by those of the account file the process has found.             *)
OwnFile(p) == IF local[p] # None THEN local[p] ELSE user[p]
AccountURI(p) == user[p]

Order(p, d) ==
    /\ pc[p] = "ready"
    /\ CanOrder(p, d)
    /\ \/ d \in Keyed /\ caa' = [caa EXCEPT ![ZonesOf[d][1]] = AccountURI(p)]
       \/ (d \notin Keyed \/ Fails("dns")) /\ UNCHANGED caa
    /\ UNCHANGED <<configured, bucket, registered, pc, ca, user>>

(* The process ends, between runs or by a crash anywhere.                  *)
Stop(p) ==
    /\ pc[p] # "off"
    /\ pc[p] = "ready" \/ Fails("crash")
    /\ Fatal(p)
    /\ UNCHANGED <<configured, bucket, world, ca>>

(* The operator changes LETSENCRYPT_CA_URL, for processes started later: of*)
(* a deployment that has no account yet, or ("switch") of any.             *)
Unused ==
    /\ stored = None
    /\ \A p \in Proc : pc[p] = "off" /\ (local[p] # None => local[p].at = None)

Switch(c) ==
    /\ Unused \/ Fails("switch")
    /\ configured # c
    /\ configured' = c
    /\ UNCHANGED <<bucket, world, pc, ca, user>>

Next ==
    \/ \E p \in Proc :
        \/ Start(p) \/ Load(p) \/ HeadUser(p) \/ PutUser(p) \/ Reload(p)
        \/ Register(p) \/ SaveUser(p) \/ Stop(p)
        \/ \E d \in Domain : Order(p, d)
    \/ \E c \in CA : Switch(c)

Spec == Init /\ [][Next]_vars

(* The assumption of StoreACMEUserIfNotExists ("the TOCTOU race window is  *)
(* acceptable"): no two processes are in the window at once.               *)
Creating(p) == pc[p] = "put"
OneCreator == \A p, q \in Proc : Creating(p) /\ Creating(q) => p = q
SpacedSpec == Init /\ [][Next /\ OneCreator']_vars

-----------------------------------------------------------------------------
(* "The ACME user is written only once": the stored account stays the one  *)
(* it is, and keeps its registration, though register saves it again, over *)
(* whatever is there by then.                                              *)
KeptStep ==
    stored # None =>
        /\ stored' # None /\ stored'.user.key = stored.user.key
        /\ stored'.stray = stored.stray
        /\ stored.user.at # None => stored'.user.at = stored.user.at
NeverReplaced == [][KeptStep]_vars

(* "S3 is the source of truth": nobody works with, registers or names in   *)
(* CAA records another account than the stored one.                        *)
OneAccount ==
    /\ \A p \in Proc : pc[p] \in {"register", "save", "ready"} =>
            stored # None /\ user[p].key = stored.user.key
    /\ \A z \in Zone : caa[z] # None => stored # None /\ caa[z] = stored.user

(* A renewer that is ready can order for every domain: its account is one  *)
(* of the CA it talks to, and no CAA record that another renewer, or an    *)
(* earlier process, has published stands against it.                       *)
NotLockedOut ==
    \A p \in Proc, d \in Domain : pc[p] = "ready" => CanOrder(p, d)
=============================================================================
