--------------------------- MODULE AccountProofs ---------------------------
(***************************************************************************)
(* The ACME account, for any renewers, domains, zones and faults: its key  *)
(* is kept when no two processes are between the HeadObject and the        *)
(* PutObject of StoreACMEUserIfNotExists at once; it is the one account of *)
(* all, and good for every domain, if the CA is not changed under it.      *)
(***************************************************************************)
EXTENDS Account, TLAPS

(* A registration is at the configured CA, which knows the key.            *)
Known(u) == u.at # None => u.at = configured /\ u.key \in registered[configured]

Holding == {"register", "save", "ready"}

Registrations ==
    /\ stored # None => Known(stored.user)
    /\ \A p \in Proc : local[p] # None => Known(local[p])
    /\ \A p \in Proc : Known(user[p])

Processes ==
    \A p \in Proc :
        /\ pc[p] # "off" => ca[p] = configured
        /\ pc[p] = "off" => user[p] = NoUser
        /\ pc[p] = "put" => stored = None
        /\ pc[p] \in Holding => stored.stray = (p \in Stray)
        /\ pc[p] \in {"save", "ready"} => user[p].at # None
        /\ pc[p] \in {"register", "ready"} /\ user[p].at # None => user[p] = stored.user

CaaRegistered == \A z \in Zone : caa[z] # None => caa[z].at # None

AccountInv ==
    /\ AccountTypeOK /\ OneCreator
    /\ OneAccount /\ Registrations /\ Processes /\ CaaRegistered

-----------------------------------------------------------------------------
LEMMA NoneIsNoUser == \A u \in User : u # None
    BY RecordAssumption

LEMMA AccountInit == Init => AccountInv
<1> SUFFICES ASSUME Init PROVE AccountInv
    OBVIOUS
<1> USE DEF Init, User, NoUser
<1>1. local \in [Proc -> User \cup {None}]
    OBVIOUS
<1>2. /\ caa \in [Zone -> User \cup {None}] /\ pc \in [Proc -> Place]
      /\ user \in [Proc -> User \cup {NoUser}] /\ ca \in [Proc -> CA]
      /\ registered \in [CA -> SUBSET Key]
    BY DEF Place
<1>3. AccountTypeOK
    BY <1>1, <1>2 DEF AccountTypeOK
<1>4. \A p \in Proc : local[p] # None => Known(local[p])
    <2> SUFFICES ASSUME NEW p \in Proc, local[p] # None, local[p].at # None
                 PROVE  Known(local[p])
        BY DEF Known
    <2>1. local[p] \in [key : Key, at : {configured}]
        OBVIOUS
    <2>2. local[p] = [key |-> local[p].key, at |-> configured] /\ local[p].key \in Key
        BY <2>1
    <2>3. registered[configured] = {k \in Key : \E q \in Proc : local[q] = [key |-> k, at |-> configured]}
        OBVIOUS
    <2> QED BY <2>2, <2>3 DEF Known
<1>5. Registrations /\ Processes /\ CaaRegistered /\ OneAccount /\ OneCreator
    BY <1>4 DEF Registrations, Processes, CaaRegistered, OneAccount, OneCreator, Creating, Known, Holding
<1> QED BY <1>3, <1>5 DEF AccountInv

(* What the steps of one process leave to show of the others.              *)
LEMMA AccountStep ==
    ASSUME "switch" \notin Faults
    PROVE  AccountInv /\ [Next /\ OneCreator']_vars => AccountInv' /\ (KeptStep \/ UNCHANGED vars)
<1> SUFFICES ASSUME AccountInv, [Next /\ OneCreator']_vars
             PROVE  AccountInv' /\ (KeptStep \/ UNCHANGED vars)
    OBVIOUS
<1> USE NoneIsNoUser, NoneAssumption, ProcAssumption
    DEF AccountInv, GoTo, Fatal, Place, Holding
<1>1. ASSUME NEW p \in Proc, Start(p) PROVE AccountInv' /\ KeptStep
    BY <1>1 DEF Start, bucket, world, AccountTypeOK, OneAccount, Registrations, Processes,
        CaaRegistered, OneCreator, Creating, KeptStep, Known
<1>2. ASSUME NEW p \in Proc, Load(p) PROVE AccountInv' /\ KeptStep
    <2> USE DEF bucket, world
    <2>1. CASE stored # None /\ Readable(p) /\ Take(p) /\ GoTo(p, "register")
        <3>1. stored \in Stored /\ stored.user \in User
            BY <2>1 DEF AccountTypeOK, Stored
        <3>2. /\ user' = [user EXCEPT ![p] = stored.user] /\ pc' = [pc EXCEPT ![p] = "register"]
              /\ UNCHANGED <<configured, stored, local, registered, caa, ca>>
            BY <1>2, <2>1 DEF Load, Take
        <3> QED BY <1>2, <2>1, <3>1, <3>2 DEF Load, Readable, AccountTypeOK, OneAccount,
                Registrations, Processes, CaaRegistered, OneCreator, Creating, KeptStep, Known
    <2>2. CASE pc' = [pc EXCEPT ![p] = "off"] /\ user' = [user EXCEPT ![p] = NoUser]
        BY <1>2, <2>2 DEF Load, AccountTypeOK, OneAccount,
            Registrations, Processes, CaaRegistered, OneCreator, Creating, KeptStep, Known, NoUser
    <2>3. ASSUME NEW u \in User, Known(u), stored = None,
                 pc' = [pc EXCEPT ![p] = "head"], user' = [user EXCEPT ![p] = u]
          PROVE  AccountInv' /\ KeptStep
        BY <1>2, <2>3 DEF Load, AccountTypeOK, OneAccount,
            Registrations, Processes, CaaRegistered, OneCreator, Creating, KeptStep, Known
    <2>4. ASSUME NEW key \in Key
          PROVE  [key |-> key, at |-> None] \in User /\ Known([key |-> key, at |-> None])
        BY DEF User, Known
    <2>5. local[p] # None => local[p] \in User /\ Known(local[p])
        BY DEF AccountTypeOK, Registrations
    <2> QED BY <1>2, <2>1, <2>2, <2>3, <2>4, <2>5 DEF Load
<1>3. ASSUME NEW p \in Proc, HeadUser(p), OneCreator' PROVE AccountInv' /\ KeptStep
    BY <1>3 DEF HeadUser, HeadResult, bucket, world, AccountTypeOK, OneAccount, Registrations, Processes,
        CaaRegistered, OneCreator, Creating, KeptStep, Known, NoUser
<1>4. ASSUME NEW p \in Proc, PutUser(p) PROVE AccountInv' /\ KeptStep
    <2> USE DEF bucket, world
    <2>1. pc[p] = "put" /\ user[p] \in User /\ Known(user[p]) /\ stored = None
        BY <1>4 DEF PutUser, AccountTypeOK, Registrations, Processes
    <2>2. CASE UNCHANGED stored /\ Fatal(p)
        BY <1>4, <2>1, <2>2 DEF PutUser, AccountTypeOK, OneAccount, Registrations, Processes,
            CaaRegistered, OneCreator, Creating, KeptStep, Known, NoUser
    <2>3. CASE Write(p)
        <3>1. /\ stored' = [user |-> user[p], stray |-> p \in Stray]
              /\ stored' \in Stored /\ stored' # None
            <4>1. [user |-> user[p], stray |-> p \in Stray] \in Stored
                <5>1. \A b \in BOOLEAN : [user |-> user[p], stray |-> b] \in Stored
                    BY <2>1 DEF Stored
                <5>2. (p \in Stray) \in BOOLEAN
                    OBVIOUS
                <5> QED BY <5>1, <5>2, Zenon
            <4> QED BY <2>3, <4>1, RecordAssumption DEF Write
        <3>2. stored'.user = user[p] /\ stored'.stray = (p \in Stray)
            BY <3>1, Zenon
        <3>3. \A q \in Proc : q # p => pc[q] \notin Holding \cup {"put"}
            BY <2>1 DEF OneAccount, OneCreator, Creating
        <3>4. \A z \in Zone : caa[z] = None
            BY <2>1 DEF OneAccount
        <3> QED BY <1>4, <2>1, <3>1, <3>2, <3>3, <3>4 DEF PutUser, AccountTypeOK, OneAccount,
                Registrations, Processes, CaaRegistered, OneCreator, Creating, KeptStep, Known, NoUser
    <2> QED BY <1>4, <2>2, <2>3 DEF PutUser
<1>5. ASSUME NEW p \in Proc, Reload(p) PROVE AccountInv' /\ KeptStep
    <2> USE DEF bucket, world
    <2>1. CASE stored # None /\ Readable(p) /\ Take(p) /\ GoTo(p, "register")
        <3>1. stored \in Stored /\ stored.user \in User
            BY <2>1 DEF AccountTypeOK, Stored
        <3>2. /\ user' = [user EXCEPT ![p] = stored.user] /\ pc' = [pc EXCEPT ![p] = "register"]
              /\ UNCHANGED <<configured, stored, local, registered, caa, ca>>
            BY <1>5, <2>1 DEF Reload, Take
        <3> QED BY <1>5, <2>1, <3>1, <3>2 DEF Reload, Readable, AccountTypeOK, OneAccount,
                Registrations, Processes, CaaRegistered, OneCreator, Creating, KeptStep, Known
    <2>2. CASE GoTo(p, "off") /\ user' = [user EXCEPT ![p] = NoUser]
        BY <1>5, <2>2 DEF Reload, AccountTypeOK, OneAccount,
            Registrations, Processes, CaaRegistered, OneCreator, Creating, KeptStep, Known, NoUser
    <2> QED BY <1>5, <2>1, <2>2 DEF Reload
<1>6. ASSUME NEW p \in Proc, Register(p) PROVE AccountInv' /\ KeptStep
    <2> USE DEF bucket
    <2>1. user[p] \in User /\ pc[p] = "register" /\ ca[p] = configured /\ configured \in CA
        BY <1>6 DEF Register, AccountTypeOK, Processes
    <2>2. CASE Registered(p) /\ GoTo(p, "ready") /\ UNCHANGED <<registered, user>>
        BY <1>6, <2>1, <2>2 DEF Register, Registered, AccountTypeOK, OneAccount,
            Registrations, Processes, CaaRegistered, OneCreator, Creating, KeptStep, Known
    <2>3. ASSUME registered' = [registered EXCEPT ![configured] = @ \cup {user[p].key}] \/ UNCHANGED registered
          PROVE  /\ registered' \in [CA -> SUBSET Key]
                 /\ registered[configured] \subseteq registered'[configured]
        BY <2>1, <2>3 DEF AccountTypeOK, User
    <2>4. CASE GoTo(p, "off") /\ user' = [user EXCEPT ![p] = NoUser]
        BY <1>6, <2>1, <2>3, <2>4 DEF Register, Registered, AccountTypeOK, OneAccount,
            Registrations, Processes, CaaRegistered, OneCreator, Creating, KeptStep, Known, NoUser
    <2>5. CASE /\ registered' = [registered EXCEPT ![configured] = @ \cup {user[p].key}]
               /\ GoTo(p, "save") /\ user' = [user EXCEPT ![p].at = configured]
        <3>1. user'[p] \in User /\ user'[p].at = configured /\ user'[p].key = user[p].key
            BY <2>1, <2>5 DEF User, AccountTypeOK
        <3>2. user[p].key \in registered'[configured]
            BY <2>1, <2>5 DEF AccountTypeOK
        <3> QED BY SMTT(30), <1>6, <2>1, <2>3, <2>5, <3>1, <3>2 DEF Register, AccountTypeOK, OneAccount,
                Registrations, Processes, CaaRegistered, OneCreator, Creating, KeptStep, Known
    <2> QED BY <1>6, <2>1, <2>2, <2>4, <2>5 DEF Register
<1>7. ASSUME NEW p \in Proc, SaveUser(p) PROVE AccountInv' /\ KeptStep
    <2> USE DEF bucket, world
    <2>1. /\ pc[p] = "save" /\ user[p] \in User /\ user[p].at = configured /\ Known(user[p])
          /\ stored \in Stored /\ stored.user.key = user[p].key /\ stored.stray = (p \in Stray)
        BY <1>7 DEF SaveUser, AccountTypeOK, OneAccount, Registrations, Processes, Known
    <2>2. stored.user.at # None => stored.user = user[p]
        <3>1. stored.user \in User /\ Known(stored.user)
            BY <2>1, NoneIsNoUser, RecordAssumption DEF Registrations, Stored
        <3>2. stored.user.at # None => stored.user.at = user[p].at
            BY <2>1, <3>1 DEF Known
        <3> QED BY <2>1, <3>1, <3>2 DEF User
    <2>3. CASE UNCHANGED stored /\ Fatal(p)
        BY <1>7, <2>1, <2>3 DEF SaveUser, AccountTypeOK, OneAccount, Registrations, Processes,
            CaaRegistered, OneCreator, Creating, KeptStep, Known, NoUser
    <2>4. CASE Write(p)
        <3>1. stored' = [user |-> user[p], stray |-> p \in Stray] /\ stored' \in Stored /\ stored' # None
            BY <2>1, <2>4, RecordAssumption DEF Write, Stored
        <3>2. stored'.user = user[p] /\ stored'.stray = (p \in Stray)
            BY <3>1
        <3>3. KeptStep
            BY <2>1, <2>2, <3>1, <3>2 DEF KeptStep
        <3>4. \A z \in Zone : caa[z] # None => caa[z] = stored'.user
            BY <2>1, <2>2, <3>2 DEF OneAccount, CaaRegistered
        <3> QED BY SMTT(30), <1>7, <2>1, <2>2, <3>1, <3>2, <3>3, <3>4 DEF SaveUser, AccountTypeOK, OneAccount,
                Registrations, Processes, CaaRegistered, OneCreator, Creating, Known, NoUser
    <2> QED BY <1>7, <2>3, <2>4 DEF SaveUser
<1>8. ASSUME NEW p \in Proc, Stop(p) PROVE AccountInv' /\ KeptStep
    BY <1>8 DEF Stop, bucket, world, AccountTypeOK, OneAccount, Registrations, Processes,
        CaaRegistered, OneCreator, Creating, KeptStep, Known, NoUser
<1>9. ASSUME NEW p \in Proc, NEW d \in Domain, Order(p, d) PROVE AccountInv' /\ KeptStep
    BY ZenonT(40), <1>9, ZoneAssumption DEF Order, AccountURI, bucket, AccountTypeOK, OneAccount, Registrations, Processes,
        CaaRegistered, OneCreator, Creating, KeptStep, Known, NoUser
<1>10. ASSUME NEW c \in CA, Switch(c) PROVE AccountInv' /\ KeptStep
    BY <1>10 DEF Switch, Unused, Fails, bucket, world, AccountTypeOK, OneAccount, Registrations, Processes,
        CaaRegistered, OneCreator, Creating, KeptStep, Known, NoUser
<1>11. CASE UNCHANGED vars
    BY <1>11 DEF vars, bucket, world, AccountTypeOK, OneAccount, Registrations, Processes,
        CaaRegistered, OneCreator, Creating, Known
<1> QED
    BY <1>1, <1>2, <1>3, <1>4, <1>5, <1>6, <1>7, <1>8, <1>9, <1>10, <1>11 DEF Next

-----------------------------------------------------------------------------
(* What holds even when the CA is changed under an account, for processes  *)
(* that talk to different CAs: they all use one key.                       *)
LEMMA WriteType ==
    ASSUME AccountTypeOK, NEW p \in Proc, user[p] \in User, Write(p)
    PROVE  /\ stored' \in Stored /\ stored' # None
           /\ stored'.user = user[p] /\ stored'.stray = (p \in Stray)
<1>1. \A b \in BOOLEAN : [user |-> user[p], stray |-> b] \in Stored
    BY DEF Stored
<1>2. (p \in Stray) \in BOOLEAN
    OBVIOUS
<1>3. [user |-> user[p], stray |-> p \in Stray] \in Stored
    BY <1>1, <1>2, Zenon
<1>4. stored' = [user |-> user[p], stray |-> p \in Stray]
    BY DEF Write
<1>5. stored'.user = user[p] /\ stored'.stray = (p \in Stray)
    BY <1>4, Zenon
<1> QED BY <1>3, <1>4, <1>5, RecordAssumption

LEMMA AccountTypeStep == AccountTypeOK /\ [Next]_vars => AccountTypeOK'
<1> SUFFICES ASSUME AccountTypeOK, [Next]_vars PROVE AccountTypeOK'
    OBVIOUS
<1> USE NoneIsNoUser, NoneAssumption
    DEF GoTo, Fatal, Place, bucket, world
<1>1. ASSUME NEW p \in Proc, Start(p) PROVE AccountTypeOK'
    BY <1>1 DEF Start, AccountTypeOK
<1>2. ASSUME NEW p \in Proc, Load(p) PROVE AccountTypeOK'
    <2>1. stored # None => stored.user \in User
        BY DEF AccountTypeOK, Stored
    <2>2. \A key \in Key : [key |-> key, at |-> None] \in User
        BY DEF User
    <2>3. local[p] # None => local[p] \in User
        BY DEF AccountTypeOK
    <2>4. UNCHANGED <<configured, stored, local, registered, caa, ca>>
        BY <1>2 DEF Load
    <2>5. \/ user' = [user EXCEPT ![p] = NoUser] /\ pc' = [pc EXCEPT ![p] = "off"]
          \/ \E u \in User, place \in {"register", "head"} :
                user' = [user EXCEPT ![p] = u] /\ pc' = [pc EXCEPT ![p] = place]
        BY <1>2, <2>1, <2>2, <2>3 DEF Load, Take
    <2> QED BY <2>4, <2>5 DEF AccountTypeOK
<1>3. ASSUME NEW p \in Proc, HeadUser(p) PROVE AccountTypeOK'
    BY <1>3 DEF HeadUser, HeadResult, AccountTypeOK
<1>4. ASSUME NEW p \in Proc, PutUser(p) PROVE AccountTypeOK'
    <2>1. user[p] \in User
        BY <1>4 DEF PutUser, AccountTypeOK
    <2>2. stored' \in Stored \cup {None}
        BY <1>4, <2>1, WriteType DEF PutUser, AccountTypeOK
    <2> QED BY <1>4, <2>1, <2>2 DEF PutUser, AccountTypeOK
<1>5. ASSUME NEW p \in Proc, Reload(p) PROVE AccountTypeOK'
    <2>1. stored # None => stored.user \in User
        BY DEF AccountTypeOK, Stored
    <2> QED BY <1>5, <2>1 DEF Reload, Take, AccountTypeOK
<1>6. ASSUME NEW p \in Proc, Register(p) PROVE AccountTypeOK'
    <2>1. user[p] \in User /\ ca[p] \in CA
        BY <1>6 DEF Register, AccountTypeOK
    <2>2. [user[p] EXCEPT !.at = ca[p]] \in User /\ user[p].key \in Key
        BY <2>1 DEF User
    <2>3. registered' \in [CA -> SUBSET Key]
        BY <1>6, <2>1, <2>2 DEF Register, AccountTypeOK
    <2> QED BY <1>6, <2>1, <2>2, <2>3 DEF Register, AccountTypeOK
<1>7. ASSUME NEW p \in Proc, SaveUser(p) PROVE AccountTypeOK'
    <2>1. user[p] \in User
        BY <1>7 DEF SaveUser, AccountTypeOK
    <2>2. stored' \in Stored \cup {None}
        BY <1>7, <2>1, WriteType DEF SaveUser, AccountTypeOK
    <2> QED BY <1>7, <2>1, <2>2 DEF SaveUser, AccountTypeOK
<1>8. ASSUME NEW p \in Proc, Stop(p) PROVE AccountTypeOK'
    BY <1>8 DEF Stop, AccountTypeOK
<1>9. ASSUME NEW p \in Proc, NEW d \in Domain, Order(p, d) PROVE AccountTypeOK'
    <2>1. user[p] \in User /\ ZonesOf[d][1] \in Zone
        BY <1>9, ZoneAssumption DEF Order, AccountTypeOK
    <2> QED BY <1>9, <2>1 DEF Order, AccountURI, AccountTypeOK
<1>10. ASSUME NEW c \in CA, Switch(c) PROVE AccountTypeOK'
    BY <1>10 DEF Switch, AccountTypeOK
<1>11. CASE UNCHANGED vars
    BY <1>11 DEF vars, AccountTypeOK
<1> QED
    BY <1>1, <1>2, <1>3, <1>4, <1>5, <1>6, <1>7, <1>8, <1>9, <1>10, <1>11 DEF Next

(* The state of the account is well-typed, whatever races and CA changes.  *)
THEOREM AccountTypeCorrect == Spec => []AccountTypeOK
<1>1. Init => AccountTypeOK
    BY AccountInit DEF AccountInv
<1> QED BY <1>1, AccountTypeStep, PTL DEF Spec

(* A process past loading has the stored key, and one about to put its own *)
(* finds nothing stored.                                                   *)
OneKey ==
    \A p \in Proc :
        /\ pc[p] = "put" => stored = None
        /\ pc[p] \in Holding =>
            stored # None /\ user[p].key = stored.user.key /\ stored.stray = (p \in Stray)

(* A step keeps the stored account's key and password.                     *)
KeyStep ==
    stored # None =>
        stored' # None /\ stored'.user.key = stored.user.key /\ stored'.stray = stored.stray

LEMMA OneKeyStep ==
    AccountTypeOK /\ OneCreator /\ OneKey /\ [Next /\ OneCreator']_vars => OneKey' /\ KeyStep
<1> SUFFICES ASSUME AccountTypeOK, OneCreator, OneKey, [Next /\ OneCreator']_vars
             PROVE  OneKey' /\ KeyStep
    OBVIOUS
<1>0. AccountTypeOK'
    BY AccountTypeStep
<1> USE <1>0 DEF GoTo, Fatal, Place, Holding, bucket, world, AccountTypeOK, OneKey, KeyStep
<1>1. ASSUME NEW p \in Proc, Start(p) \/ HeadUser(p) \/ Stop(p) PROVE OneKey' /\ KeyStep
    BY <1>1 DEF Start, HeadUser, HeadResult, Stop
<1>2. ASSUME NEW p \in Proc, Load(p) PROVE OneKey' /\ KeyStep
    BY <1>2 DEF Load, Take, Readable
<1>3. ASSUME NEW p \in Proc, Reload(p) PROVE OneKey' /\ KeyStep
    BY <1>3 DEF Reload, Take, Readable
<1>4. ASSUME NEW p \in Proc, PutUser(p) PROVE OneKey' /\ KeyStep
    <2>1. pc[p] = "put" /\ user[p] \in User /\ stored = None
        BY <1>4 DEF PutUser
    <2>2. \A q \in Proc : q # p => pc[q] \notin Holding \cup {"put"}
        BY <2>1 DEF OneCreator, Creating
    <2>3. CASE UNCHANGED stored /\ Fatal(p)
        BY <1>4, <2>1, <2>3 DEF PutUser
    <2>4. CASE Write(p)
        BY <1>4, <2>1, <2>2, <2>4, WriteType DEF PutUser
    <2> QED BY <1>4, <2>3, <2>4 DEF PutUser
<1>5. ASSUME NEW p \in Proc, Register(p) PROVE OneKey' /\ KeyStep
    BY <1>5 DEF Register, User
<1>6. ASSUME NEW p \in Proc, SaveUser(p) PROVE OneKey' /\ KeyStep
    <2>1. /\ pc[p] = "save" /\ user[p] \in User /\ stored # None
          /\ user[p].key = stored.user.key /\ stored.stray = (p \in Stray)
        BY <1>6 DEF SaveUser
    <2>2. CASE UNCHANGED stored
        BY <1>6, <2>1, <2>2 DEF SaveUser
    <2>3. CASE Write(p)
        BY <1>6, <2>1, <2>3, WriteType DEF SaveUser
    <2> QED BY <1>6, <2>2, <2>3 DEF SaveUser
<1>7. ASSUME NEW p \in Proc, NEW d \in Domain, Order(p, d) PROVE OneKey' /\ KeyStep
    BY <1>7 DEF Order
<1>8. ASSUME NEW c \in CA, Switch(c) PROVE OneKey' /\ KeyStep
    BY <1>8 DEF Switch
<1>9. CASE UNCHANGED vars
    BY <1>9 DEF vars
<1> QED BY <1>1, <1>2, <1>3, <1>4, <1>5, <1>6, <1>7, <1>8, <1>9 DEF Next

(* The key of the stored account, and the password it is encrypted with,   *)
(* stay what they are even when the CA is changed under it.                *)
THEOREM KeyIsKept == SpacedSpec => [][KeyStep]_vars
<1>1. Init => AccountTypeOK /\ OneCreator /\ OneKey
    <2>1. Init => AccountTypeOK /\ OneCreator
        BY AccountInit DEF AccountInv
    <2> QED BY <2>1 DEF Init, OneKey, Holding
<1>2. OneCreator /\ [Next /\ OneCreator']_vars => OneCreator'
    BY DEF vars, OneCreator, Creating
<1>3. [Next /\ OneCreator']_vars => [Next]_vars
    OBVIOUS
<1> QED BY <1>1, <1>2, <1>3, AccountTypeStep, OneKeyStep, PTL DEF SpacedSpec

(* Nobody works with, or names in CAA records, an account that is not the  *)
(* stored one.                                                             *)
THEOREM OneAccountHolds ==
    ASSUME "switch" \notin Faults PROVE SpacedSpec => []OneAccount
<1>1. AccountInv => OneAccount
    BY DEF AccountInv
<1> QED BY AccountInit, AccountStep, <1>1, PTL DEF SpacedSpec

(* The stored account is never replaced by another, nor by an older copy   *)
(* that lacks its registration.                                            *)
THEOREM AccountIsKept ==
    ASSUME "switch" \notin Faults PROVE SpacedSpec => NeverReplaced
<1> QED BY AccountInit, AccountStep, PTL DEF SpacedSpec, NeverReplaced

(* Whatever CAA records have been published and by whom, a renewer that is *)
(* ready can order for every domain.                                       *)
THEOREM NeverLockedOut ==
    ASSUME "switch" \notin Faults PROVE SpacedSpec => []NotLockedOut
<1>1. AccountInv => NotLockedOut
    <2> SUFFICES ASSUME AccountInv, NEW p \in Proc, NEW d \in Domain, pc[p] = "ready"
                 PROVE  CanOrder(p, d)
        BY DEF NotLockedOut
    <2>1. user[p] = stored.user /\ Known(user[p]) /\ user[p].at # None /\ ca[p] = configured
        BY DEF AccountInv, Registrations, Processes
    <2>2. \A i \in DOMAIN ZonesOf[d] : ZonesOf[d][i] \in Zone
        BY ZoneAssumption
    <2>3. Permits(d, user[p])
        BY <2>1, <2>2 DEF Permits, AccountInv, OneAccount
    <2> QED BY <2>1, <2>3 DEF CanOrder, Known
<1> QED BY AccountInit, AccountStep, <1>1, PTL DEF SpacedSpec
=============================================================================
