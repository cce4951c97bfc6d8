----------------------------- MODULE CertStore -----------------------------
(***************************************************************************)
(* The certificate authority (lib/go-mitmproxy/cert/cert.go): how launched *)
(* processes find, load or create the CA in one store directory, and how   *)
(* GetCert hands out certificates to concurrent TLS handshakes.            *)
(*                                                                         *)
(* A key pair and its self-signed certificate are named by who made them:  *)
(* a process, or a user who put a CA into the store by hand, where the key *)
(* and the certificate need not belong together.                           *)
(* A process is one life; a restart is another process.  Processes may     *)
(* overlap, die at any step, and any call may fail.  The calls of GetCert  *)
(* are those of one process, Observed: the cache is in memory, so nothing  *)
(* of them is seen by the others.                                          *)
(***************************************************************************)
EXTENDS Integers, Sequences

CONSTANTS
    Procs,       \* lives of the program, in any order
    Observed,    \* the one whose handshakes are followed
    Users,       \* whose key and certificate may have been put into the store by hand
    KeyFormat,   \* KeyFormat[u]: how u's private key is encoded
    BadCerts,    \* the users whose certificate x509 cannot parse
    NoOne,
    Calls,       \* calls of GetCert
    Names,       \* common names
    MaxEntries   \* the size of the LRU cache

ASSUME CertAssumption ==
    /\ Observed \in Procs
    /\ Users \cap Procs = {}
    /\ NoOne \notin Procs \cup Users \cup Calls
    /\ KeyFormat \in [Users -> {"PKCS8", "PKCS1", "notRSA", "unknown"}]
    /\ BadCerts \subseteq Users
    /\ MaxEntries \in Nat \ {0}

VARIABLES
    caFile,     \* mitmproxy-ca.pem: a private key, then a certificate
    published,  \* mitmproxy-ca-cert.pem and mitmproxy-ca-cert.cer, which users install
    at,         \* at[p]: where NewCA is in process p, or how p ended
    ca,         \* ca[p]: PrivateKey and RootCert of p's CA
    overlap,    \* history: two processes were in NewCA at the same time
    ran,        \* history: the CAs processes have run with
    cache,      \* the LRU cache of Observed, most recent first
    flight,     \* flight[n]: the call that leads the singleflight of name n
    call        \* call[c]: a call of GetCert

storeVars == <<caFile, published, at, ca, overlap, ran>>
cacheVars == <<cache, flight, call>>
vars == <<caFile, published, at, ca, overlap, ran, cache, flight, call>>

Makers == Procs \cup Users
PublishedFiles == {"pem", "cer"}

Pair(key, cert) == [key |-> key, cert |-> cert]
NoPair == Pair(NoOne, NoOne)
Pairs == [key : Makers \cup {NoOne}, cert : Makers \cup {NoOne}]

\* Both blocks are there.  load does not compare them.
Whole(pair) == pair.key # NoOne /\ pair.cert # NoOne

Starting == {"read", "create", "key", "cert", "openpem", "pem", "opencer", "cer"}
Ended == {"dead", "error", "refused"}

\* A certificate by DummyCert: for whom, signed by which key, minted in which call.
Cert(n, key, c) == [name |-> n, signer |-> key, by |-> c]
Certs == [name : Names, signer : Makers, by : Calls]
Failed == [name |-> NoOne, signer |-> NoOne, by |-> NoOne]

CallRecord == [at : {"idle", "missed", "waiting", "minting", "landed", "returned"},
               name : Names \cup {NoOne}, leader : Calls \cup {NoOne}, result : Certs \cup {Failed}]
Idle == [at |-> "idle", name |-> NoOne, leader |-> NoOne, result |-> Failed]

CertTypeOK ==
    /\ caFile \in [exists : BOOLEAN, pair : Pairs]
    /\ published \in [PublishedFiles -> Makers \cup {"absent", "empty"}]
    /\ at \in [Procs -> Starting \cup Ended \cup {"new", "running"}]
    /\ ca \in [Procs -> Pairs]
    /\ overlap \in BOOLEAN
    /\ ran \subseteq Pairs
    /\ cache \in Seq(Certs) /\ Len(cache) <= MaxEntries
    /\ flight \in [Names -> Calls \cup {NoOne}]
    /\ call \in [Calls -> CallRecord]

CertInit ==
    /\ caFile \in {[exists |-> FALSE, pair |-> NoPair]}
                  \cup [exists : {TRUE}, pair : [key : Users, cert : Users]]
    /\ published = [f \in PublishedFiles |-> "absent"]
    /\ at = [p \in Procs |-> "new"]
    /\ ca = [p \in Procs |-> NoPair]
    /\ overlap = FALSE
    /\ ran = {}
    /\ cache = <<>>
    /\ flight = [n \in Names |-> NoOne]
    /\ call = [c \in Calls |-> Idle]

-----------------------------------------------------------------------------
(* NewCA *)

\* getStorePath made or found the directory; load asks whether the file exists.
NewCA(p) ==
    /\ at[p] = "new"
    /\ at' = [at EXCEPT ![p] = IF caFile.exists THEN "read" ELSE "create"]
    /\ overlap' = (overlap \/ \E q \in Procs : at[q] \in Starting)
    /\ UNCHANGED <<caFile, published, ca, ran, cacheVars>>

RunsWith(p, pair) ==
    /\ at' = [at EXCEPT ![p] = "running"]
    /\ ca' = [ca EXCEPT ![p] = pair]
    /\ ran' = ran \cup {pair}

\* Faulty variant: load before its fix #14.
ParsePKCS8Only(maker) == maker \in Users => KeyFormat[maker] = "PKCS8"

\* The key block: saveTo writes PKCS#8, a user's key may be PKCS#1 too.  A key
\* that is not RSA and any other encoding is an error.
ParseKey(maker) == maker \in Users => KeyFormat[maker] \in {"PKCS8", "PKCS1"}

ParseCertificate(maker) == maker \notin BadCerts

\* load finds the two blocks and can use them.
Loads(pair) == Whole(pair) /\ ParseKey(pair.key) /\ ParseCertificate(pair.cert)

\* The rest of load.  Only a missing file is errCaNotFound: NewCA returns any
\* other error, so a file it cannot use is refused.
Load(p) ==
    /\ at[p] = "read"
    /\ IF Loads(caFile.pair)
       THEN RunsWith(p, caFile.pair)
       ELSE /\ at' = [at EXCEPT ![p] = "refused"]
            /\ UNCHANGED <<ca, ran>>
    /\ UNCHANGED <<caFile, published, overlap, cacheVars>>

\* A key and the certificate that key has signed for itself.
createCert(p) == Pair(p, p)

\* Faulty variant: the CA is used without being stored, as NewCAMemory does.
CreateInMemory(p) ==
    /\ at[p] = "create"
    /\ RunsWith(p, createCert(p))
    /\ UNCHANGED <<caFile, published, overlap, cacheVars>>

\* Faulty variant: the certificate is published before the CA is saved.
PublishFirst(p) ==
    /\ at[p] = "create"
    /\ ca' = [ca EXCEPT ![p] = createCert(p)]
    /\ published' = [published EXCEPT !["pem"] = p]
    /\ caFile' = [exists |-> TRUE, pair |-> NoPair]
    /\ at' = [at EXCEPT ![p] = "key"]
    /\ UNCHANGED <<overlap, ran, cacheVars>>

\* createCert, then os.Create in save, which truncates what is there.
Create(p) ==
    /\ at[p] = "create"
    /\ ca' = [ca EXCEPT ![p] = createCert(p)]
    /\ caFile' = [exists |-> TRUE, pair |-> NoPair]
    /\ at' = [at EXCEPT ![p] = "key"]
    /\ UNCHANGED <<published, overlap, ran, cacheVars>>

\* saveTo: the key block, then the certificate block.  Processes that create the
\* file write at the same offsets: if it holds anything but what p has written,
\* and the blocks are not of one length, they cannot be read.
SaveTo(p, written, block, next) ==
    /\ caFile' \in {[caFile EXCEPT !.pair = block]}
                   \cup (IF caFile.pair = written THEN {} ELSE {[caFile EXCEPT !.pair = NoPair]})
    /\ at' = [at EXCEPT ![p] = next]
    /\ UNCHANGED <<published, ca, overlap, ran, cacheVars>>

SaveKey(p) == at[p] = "key" /\ SaveTo(p, NoPair, [caFile.pair EXCEPT !.key = p], "cert")
SaveCertificate(p) ==
    at[p] = "cert" /\ SaveTo(p, Pair(p, NoOne), [caFile.pair EXCEPT !.cert = p], "openpem")

\* saveCert: create and write mitmproxy-ca-cert.pem, then mitmproxy-ca-cert.cer.
Publish(p, from, f, content, next) ==
    /\ at[p] = from
    /\ published' = [published EXCEPT ![f] = content]
    /\ at' = [at EXCEPT ![p] = next]
    /\ UNCHANGED <<caFile, ca, overlap, ran, cacheVars>>

OpenPem(p) == Publish(p, "openpem", "pem", "empty", "pem")
WritePem(p) == Publish(p, "pem", "pem", p, "opencer")
OpenCer(p) == Publish(p, "opencer", "cer", "empty", "cer")

WriteCer(p) ==
    /\ at[p] = "cer"
    /\ published' = [published EXCEPT !["cer"] = p]
    /\ RunsWith(p, ca[p])
    /\ UNCHANGED <<caFile, overlap, cacheVars>>

\* A call to the system fails, or the path or the file is of the wrong kind: NewCA
\* returns the error.
CallFails(p) ==
    /\ at[p] \in Starting \cup {"new"}
    /\ at' = [at EXCEPT ![p] = "error"]
    /\ UNCHANGED <<caFile, published, ca, overlap, ran, cacheVars>>

\* The process ends, with whatever it was doing.
Dies(p) ==
    /\ at[p] \in Starting \cup {"running"}
    /\ at' = [at EXCEPT ![p] = "dead"]
    /\ IF p = Observed
       THEN /\ cache' = <<>>
            /\ flight' = [n \in Names |-> NoOne]
            /\ call' = [c \in Calls |-> IF call[c].at = "returned" THEN call[c] ELSE Idle]
       ELSE UNCHANGED cacheVars
    /\ UNCHANGED <<caFile, published, ca, overlap, ran>>

-----------------------------------------------------------------------------
(* GetCert *)

Cached(n) == {i \in DOMAIN cache : cache[i].name = n}
Position(n) == CHOOSE i \in Cached(n) : TRUE

\* The other entries: a name has one entry in the cache at most.
Without(n) ==
    IF Cached(n) = {}
    THEN cache
    ELSE SubSeq(cache, 1, Position(n) - 1) \o SubSeq(cache, Position(n) + 1, Len(cache))

\* Faulty variant: a cache without a limit.
AddUnbounded(e) == <<e>> \o Without(e.name)

\* lru.Cache: Get moves an entry to the front, Add puts one there and drops the
\* oldest when there are too many.
Add(e) == LET entries == <<e>> \o Without(e.name)
          IN  SubSeq(entries, 1, IF Len(entries) > MaxEntries THEN MaxEntries ELSE Len(entries))

\* Under cacheMu: the certificate in the cache, or a miss.
Lookup(c, n) ==
    /\ at[Observed] = "running"
    /\ call[c].at = "idle"
    /\ IF Cached(n) # {}
       THEN LET e == cache[Position(n)]
            IN  /\ cache' = Add(e)
                /\ call' = [call EXCEPT ![c] = [Idle EXCEPT !.at = "returned", !.name = n, !.result = e]]
       ELSE /\ call' = [call EXCEPT ![c] = [Idle EXCEPT !.at = "missed", !.name = n]]
            /\ UNCHANGED cache
    /\ UNCHANGED <<flight, storeVars>>

\* Faulty variant: one flight for all names.
JoinAnyFlight(c) ==
    LET leaders == {flight[n] : n \in Names} \ {NoOne}
    IN  /\ call[c].at = "missed"
        /\ IF leaders = {}
           THEN /\ flight' = [flight EXCEPT ![call[c].name] = c]
                /\ call' = [call EXCEPT ![c].at = "minting"]
           ELSE /\ call' = [call EXCEPT ![c].at = "waiting", ![c].leader = CHOOSE d \in leaders : TRUE]
                /\ UNCHANGED flight
        /\ UNCHANGED <<cache, storeVars>>

\* group.Do: the first call for a name leads, the others wait for it.  A call
\* that comes between the end of a flight and its removal takes its result.
Do(c) ==
    LET n == call[c].name
        leader == flight[n]
    IN  /\ call[c].at = "missed"
        /\ IF leader = NoOne
           THEN /\ flight' = [flight EXCEPT ![n] = c]
                /\ call' = [call EXCEPT ![c].at = "minting"]
           ELSE /\ call' = [call EXCEPT ![c] =
                     IF call[leader].at = "minting"
                     THEN [@ EXCEPT !.at = "waiting", !.leader = leader]
                     ELSE [@ EXCEPT !.at = "returned", !.result = call[leader].result]]
                /\ UNCHANGED flight
        /\ UNCHANGED <<cache, storeVars>>

\* The leader has its result; the calls that waited for it return it too.
Deliver(c, result) ==
    call' = [d \in Calls |->
        IF d = c
        THEN [call[d] EXCEPT !.at = "landed", !.result = result]
        ELSE IF call[d].at = "waiting" /\ call[d].leader = c
             THEN [call[d] EXCEPT !.at = "returned", !.result = result]
             ELSE call[d]]

\* DummyCert and cache.Add.  x509.CreateCertificate refuses a key that is not
\* the one of the parent certificate.
DummyCert(c) ==
    LET made == Cert(call[c].name, ca[Observed].key, c)
    IN  /\ call[c].at = "minting"
        /\ ca[Observed].key = ca[Observed].cert
        /\ Deliver(c, made)
        /\ cache' = Add(made)
        /\ UNCHANGED <<flight, storeVars>>

\* Faulty variant: the call that failed returns without telling the others.
FailsAlone(c) ==
    /\ call[c].at = "minting"
    /\ call' = [call EXCEPT ![c].at = "landed"]
    /\ UNCHANGED <<cache, flight, storeVars>>

\* An error is returned and not cached.
DummyCertFails(c) ==
    /\ call[c].at = "minting"
    /\ Deliver(c, Failed)
    /\ UNCHANGED <<cache, flight, storeVars>>

\* The flight is removed from the group.
Forget(c) ==
    /\ call[c].at = "landed"
    /\ call' = [call EXCEPT ![c].at = "returned"]
    /\ flight' = [flight EXCEPT ![call[c].name] = NoOne]
    /\ UNCHANGED <<cache, storeVars>>

-----------------------------------------------------------------------------
Start(p) ==
    \/ NewCA(p) \/ Load(p) \/ Create(p) \/ SaveKey(p) \/ SaveCertificate(p)
    \/ OpenPem(p) \/ WritePem(p) \/ OpenCer(p) \/ WriteCer(p)

GetCert(c) == Do(c) \/ DummyCert(c) \/ DummyCertFails(c) \/ Forget(c)

\* Nothing is left to do.
AllEnded ==
    /\ \A p \in Procs : at[p] \in Ended \cup {"running"}
    /\ \A c \in Calls : call[c].at \in {"idle", "returned"}
    /\ UNCHANGED vars

CertNext ==
    \/ \E p \in Procs : Start(p) \/ CallFails(p) \/ Dies(p)
    \/ \E c \in Calls : (\E n \in Names : Lookup(c, n)) \/ GetCert(c)
    \/ AllEnded

CertFairness == \A c \in Calls : WF_vars(GetCert(c))
CertSpec == CertInit /\ [][CertNext]_vars /\ CertFairness

-----------------------------------------------------------------------------
\* As long as no two processes were in NewCA at once, all that ever ran had one
\* CA, a key with its own certificate unless it came from a user, whatever died or
\* failed in between: a certificate installed after one start stays the right one.
OneRoot == ~overlap => \A r, s \in ran : r = s /\ (r.key = r.cert \/ r.key \in Users)

\* As long as no two processes were in NewCA at once, what a user can install
\* (saveCert) is the certificate of the CA in the store, never one that was lost.
PublishedIsStored ==
    ~overlap => \A f \in PublishedFiles : published[f] \in {"absent", "empty", caFile.pair.cert}

\* The store holds what a user put there, and the key is not RSA or not encoded
\* in one of the two ways, or the certificate is none.
UserCAUnusable ==
    \/ caFile.pair.key \in Users /\ KeyFormat[caFile.pair.key] \in {"notRSA", "unknown"}
    \/ caFile.pair.cert \in BadCerts

\* load refuses a store only if some process died or failed before it had
\* written it, two wrote it at once, or a user put something unusable there: a
\* CA that was written whole, and an RSA CA of a user in either key format,
\* is never refused.
RefusedOnlyAfterFailure ==
    (\E p \in Procs : at[p] = "refused") =>
        \/ overlap
        \/ UserCAUnusable
        \/ \E q \in Procs : at[q] \in {"dead", "error"} /\ ca[q] = createCert(q) /\ ca[q] \notin ran

\* A certificate that GetCert returns is for the name that was asked for and
\* verifies under the root of the process, whichever call made it, also when the
\* store holds a key and a certificate of two CAs.
HandedOutVerifies ==
    \A c \in Calls : call[c].at = "returned" /\ call[c].result # Failed =>
        /\ call[c].result.name = call[c].name
        /\ call[c].result.signer = ca[Observed].cert

\* Every call of GetCert returns, a certificate or an error, unless the process
\* ends first: no handshake waits for ever on another one's flight.
EveryCallReturns ==
    \A c \in Calls : call[c].at # "idle" ~> (call[c].at = "returned" \/ at[Observed] = "dead")
=============================================================================
