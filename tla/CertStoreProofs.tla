-------------------------- MODULE CertStoreProofs --------------------------
(***************************************************************************)
(* Theorems about CertStore, for every number of processes, of names and   *)
(* of calls and every size of the cache.                                   *)
(*                                                                         *)
(* The store directory: processes start, fail and die in any order, and    *)
(* nothing is said of them once two were in NewCA at the same time.  That  *)
(* no second root appears depends on what the file holds while it is       *)
(* written and on who may be writing it; StoreInv says that for every      *)
(* place in NewCA.                                                         *)
(*                                                                         *)
(* GetCert: a certificate goes from the call that made it to the cache, to *)
(* the calls that waited for it, and from the cache to later ones.  GetInv *)
(* says at each of these places whose it is and who signed it.             *)
(***************************************************************************)
EXTENDS CertStore, TLAPS

StoreTypes ==
    /\ caFile \in [exists : BOOLEAN, pair : Pairs]
    /\ published \in [PublishedFiles -> Makers \cup {"absent", "empty"}]
    /\ at \in [Procs -> Starting \cup Ended \cup {"new", "running"}]
    /\ ca \in [Procs -> Pairs]
    /\ overlap \in BOOLEAN
    /\ ran \subseteq Pairs

Saving == {"key", "cert"}
Saved == {"openpem", "pem", "opencer", "cer"}

\* One process at a time is in NewCA.
Alone == \A p, q \in Procs : at[p] \in Starting /\ at[q] \in Starting => p = q

NonePublished == \A f \in PublishedFiles : published[f] = "absent"

\* Without the file nothing has happened, and only then a CA is created.
Found ==
    /\ ~caFile.exists => caFile.pair = NoPair /\ ran = {} /\ NonePublished
    /\ \A p \in Procs : at[p] = "create" => ~caFile.exists
    /\ \A p \in Procs : at[p] = "read" => caFile.exists

\* What the file holds while a process writes it, and after.
Writing ==
    \A p \in Procs :
      /\ at[p] = "key" => caFile.pair = NoPair
      /\ at[p] = "cert" => caFile.pair = Pair(p, NoOne)
      /\ at[p] \in Saving => caFile.exists /\ ran = {} /\ NonePublished /\ ca[p] = createCert(p)
      /\ at[p] \in Saved => caFile.exists /\ caFile.pair = createCert(p) /\ ca[p] = createCert(p)

\* Processes run with what the file holds.
RunStored ==
    /\ \A r \in ran : r = caFile.pair /\ Whole(r)
    /\ Whole(caFile.pair) => caFile.pair.key = caFile.pair.cert \/ caFile.pair.key \in Users

PublishedStored ==
    \A f \in PublishedFiles : published[f] \in {"absent", "empty", caFile.pair.cert}

\* An incomplete file is being written, or was left so by a process that ended.
Unfinished ==
    /\ caFile.exists /\ ~Whole(caFile.pair) =>
         \E q \in Procs : /\ at[q] \in Saving \cup {"dead", "error"}
                          /\ ca[q] = createCert(q) /\ ca[q] \notin ran
    /\ (\E p \in Procs : at[p] = "refused") =>
         /\ caFile.exists /\ ~Loads(caFile.pair)
         /\ \A q \in Procs : at[q] \notin Saving

Consistent == Alone /\ Found /\ Writing /\ RunStored /\ PublishedStored /\ Unfinished

StoreInv == StoreTypes /\ (~overlap => Consistent)

-----------------------------------------------------------------------------
(* The invariant of GetCert.                                                *)

GetTypes ==
    /\ cache \in Seq(Certs) /\ Len(cache) <= MaxEntries
    /\ flight \in [Names -> Calls \cup {NoOne}]
    /\ call \in [Calls -> CallRecord]

\* A process has its own CA from Create on, and runs with a key and a certificate.
OwnCA ==
    \A p \in Procs :
      /\ at[p] \in Saving \cup Saved => ca[p] = createCert(p)
      /\ at[p] = "running" => Whole(ca[p])

\* GetCert needs a CA: nothing is cached or under way before NewCA returns or
\* after the process has ended, and nothing at all was returned before.
NeedsCA ==
    /\ at[Observed] # "running" =>
         cache = <<>> /\ \A c \in Calls : call[c].at \in {"idle", "returned"}
    /\ at[Observed] \notin {"running", "dead"} => \A c \in Calls : call[c].at = "idle"

\* The call that leads the flight of a name mints for that name, or has just done so.
Leads ==
    \A n \in Names : flight[n] # NoOne =>
      call[flight[n]].name = n /\ call[flight[n]].at \in {"minting", "landed"}

\* A call waits for a leader that is minting for the same name.
Follows ==
    \A c \in Calls :
      /\ call[c].at \in {"missed", "waiting", "minting", "landed"} => call[c].name \in Names
      /\ call[c].at = "waiting" =>
           /\ call[c].leader \in Calls
           /\ call[call[c].leader].at = "minting"
           /\ call[call[c].leader].name = call[c].name

Verifies(e) == e.signer = ca[Observed].cert

\* What is in the cache, has landed or was returned verifies and is for its name.
Good ==
    /\ \A i \in DOMAIN cache : Verifies(cache[i])
    /\ \A c \in Calls : call[c].at \in {"landed", "returned"} /\ call[c].result # Failed =>
         call[c].result.name = call[c].name /\ Verifies(call[c].result)

GetInv == GetTypes /\ OwnCA /\ NeedsCA /\ Leads /\ Follows /\ Good

-----------------------------------------------------------------------------
\* A created CA has a key and a certificate that belong together.
LEMMA CreatedIsWhole ==
  ASSUME NEW p \in Procs
  PROVE  /\ createCert(p) \in Pairs /\ Whole(createCert(p)) /\ Loads(createCert(p))
         /\ createCert(p).key = p /\ createCert(p).cert = p
BY CertAssumption DEF createCert, Pair, Pairs, Whole, Makers, Loads, ParseKey, ParseCertificate

\* The initial store, empty or filled by a user, satisfies the invariant.
LEMMA InitInv == CertInit => StoreInv
<1> SUFFICES ASSUME CertInit PROVE StoreInv
  OBVIOUS
<1>1. /\ published = [f \in PublishedFiles |-> "absent"]
      /\ at = [p \in Procs |-> "new"]
      /\ ca = [p \in Procs |-> NoPair]
      /\ overlap = FALSE
      /\ ran = {}
  BY DEF CertInit
<1>2. /\ caFile.exists \in BOOLEAN
      /\ caFile \in [exists : BOOLEAN, pair : Pairs]
      /\ ~caFile.exists => caFile.pair = NoPair
      /\ caFile.exists => caFile.pair.key \in Users /\ caFile.pair.cert \in Users
  <2>1. CASE caFile = [exists |-> FALSE, pair |-> NoPair]
    BY <2>1 DEF NoPair, Pair, Pairs
  <2>2. CASE caFile \in [exists : {TRUE}, pair : [key : Users, cert : Users]]
    BY <2>2 DEF Pairs, Makers
  <2> QED
    BY <2>1, <2>2 DEF CertInit
<1>3. ca \in [Procs -> Pairs]
  BY <1>1 DEF NoPair, Pair, Pairs
<1>4. StoreTypes
  BY <1>1, <1>2, <1>3 DEF StoreTypes
<1>5. Alone /\ Writing
  BY <1>1 DEF Alone, Writing, Starting, Saving, Saved
<1>6. Found /\ PublishedStored
  BY <1>1, <1>2 DEF Found, NonePublished, PublishedStored
<1>7. RunStored /\ Unfinished
  <2>1. ~Whole(NoPair)
    BY DEF Whole, NoPair, Pair
  <2>2. caFile.exists => Whole(caFile.pair)
    BY <1>2, CertAssumption DEF Whole
  <2> QED
    BY <1>1, <1>2, <2>1, <2>2 DEF RunStored, Unfinished
<1> QED
  BY <1>4, <1>5, <1>6, <1>7 DEF StoreInv, Consistent

-----------------------------------------------------------------------------
(* Steps.  In each of them overlap stays set once it is.                    *)

\* A process enters NewCA.
LEMMA NewCAInv ==
  ASSUME NEW p \in Procs, StoreInv, NewCA(p)
  PROVE  StoreInv'
<1> USE DEF NewCA
<1>1. StoreTypes'
  BY DEF StoreInv, StoreTypes, Starting
<1>2. ASSUME ~overlap' PROVE Consistent'
  <2>1. ~overlap /\ Consistent /\ \A q \in Procs : at[q] \notin Starting
    BY <1>2 DEF StoreInv, StoreTypes
  <2>2. /\ at' = [at EXCEPT ![p] = IF caFile.exists THEN "read" ELSE "create"]
        /\ at \in [Procs -> Starting \cup Ended \cup {"new", "running"}]
        /\ UNCHANGED <<caFile, published, ca, ran>>
    BY DEF StoreInv, StoreTypes
  <2>3. Alone' /\ Found'
    BY <2>1, <2>2 DEF Consistent, Alone, Found, NonePublished, Starting
  <2>4. Writing'
    BY <2>1, <2>2 DEF Consistent, Writing, NonePublished, Saving, Saved, Starting
  <2>5. RunStored' /\ PublishedStored'
    BY <2>1, <2>2 DEF Consistent, RunStored, PublishedStored
  <2>6. Unfinished'
    BY <2>1, <2>2 DEF Consistent, Unfinished, Saving, Starting, Ended
  <2> QED
    BY <2>3, <2>4, <2>5, <2>6 DEF Consistent
<1> QED
  BY <1>1, <1>2 DEF StoreInv

\* A process loads the file, or refuses it.
LEMMA LoadInv ==
  ASSUME NEW p \in Procs, StoreInv, Load(p)
  PROVE  StoreInv'
<1>1. /\ at[p] = "read"
      /\ UNCHANGED <<caFile, published, overlap>>
      /\ at \in [Procs -> Starting \cup Ended \cup {"new", "running"}]
      /\ ca \in [Procs -> Pairs] /\ caFile.pair \in Pairs
  BY DEF Load, StoreInv, StoreTypes
<1>2. CASE Loads(caFile.pair)
  <2>1. /\ at' = [at EXCEPT ![p] = "running"]
        /\ ca' = [ca EXCEPT ![p] = caFile.pair]
        /\ ran' = ran \cup {caFile.pair}
    BY <1>2 DEF Load, RunsWith
  <2>2. StoreTypes'
    BY <1>1, <2>1 DEF StoreInv, StoreTypes
  <2>3. ASSUME ~overlap' PROVE Consistent'
    <3>1. Consistent /\ caFile.exists
      BY <1>1, <2>3 DEF StoreInv, Consistent, Found
    <3>2. \A q \in Procs : q # p => at[q] \notin Starting
      BY <1>1, <3>1 DEF Consistent, Alone, Starting
    <3>3. Alone' /\ Found' /\ Writing'
      BY <1>1, <2>1, <3>1, <3>2 DEF Consistent, Alone, Found, Writing, NonePublished, Starting, Saving, Saved
    <3>4. RunStored' /\ PublishedStored'
      BY <1>1, <1>2, <2>1, <3>1 DEF Consistent, RunStored, PublishedStored, Loads
    <3>5. Unfinished'
      <4>1. Whole(caFile.pair) /\ \A q \in Procs : at[q] # "refused"
        BY <1>2, <3>1 DEF Loads, Consistent, Unfinished
      <4>2. caFile' = caFile /\ \A q \in Procs : at'[q] # "refused"
        BY <1>1, <2>1, <4>1
      <4> QED
        BY <4>1, <4>2 DEF Unfinished
    <3> QED
      BY <3>3, <3>4, <3>5 DEF Consistent
  <2> QED
    BY <2>2, <2>3 DEF StoreInv
<1>3. CASE ~Loads(caFile.pair)
  <2>1. at' = [at EXCEPT ![p] = "refused"] /\ UNCHANGED <<ca, ran>>
    BY <1>3 DEF Load
  <2>2. StoreTypes'
    BY <1>1, <2>1 DEF StoreInv, StoreTypes, Ended
  <2>3. ASSUME ~overlap' PROVE Consistent'
    <3>1. Consistent /\ caFile.exists
      BY <1>1, <2>3 DEF StoreInv, Consistent, Found
    <3>2. \A q \in Procs : q # p => at[q] \notin Starting
      BY <1>1, <3>1 DEF Consistent, Alone, Starting
    <3>3. Alone' /\ Found' /\ Writing'
      BY <1>1, <2>1, <3>1, <3>2 DEF Consistent, Alone, Found, Writing, NonePublished, Starting, Saving, Saved
    <3>4. RunStored' /\ PublishedStored'
      BY <1>1, <2>1, <3>1 DEF Consistent, RunStored, PublishedStored
    <3>5. Unfinished'
      BY <1>1, <1>3, <2>1, <3>1, <3>2 DEF Consistent, Unfinished, Saving, Starting
    <3> QED
      BY <3>3, <3>4, <3>5 DEF Consistent
  <2> QED
    BY <2>2, <2>3 DEF StoreInv
<1> QED
  BY <1>2, <1>3

\* A process makes a CA and creates the file.
LEMMA CreateInv ==
  ASSUME NEW p \in Procs, StoreInv, Create(p)
  PROVE  StoreInv'
<1>1. /\ at[p] = "create"
      /\ at' = [at EXCEPT ![p] = "key"]
      /\ ca' = [ca EXCEPT ![p] = createCert(p)]
      /\ caFile' = [exists |-> TRUE, pair |-> NoPair]
      /\ UNCHANGED <<published, overlap, ran>>
      /\ at \in [Procs -> Starting \cup Ended \cup {"new", "running"}]
      /\ ca \in [Procs -> Pairs]
  BY DEF Create, StoreInv, StoreTypes
<1>2. /\ createCert(p) \in Pairs /\ NoPair \in Pairs /\ ~Whole(NoPair)
      /\ caFile'.exists /\ caFile'.pair = NoPair
  BY <1>1, CreatedIsWhole DEF NoPair, Pair, Pairs, Whole
<1>3. StoreTypes'
  BY <1>1, <1>2 DEF StoreInv, StoreTypes, Starting
<1>4. ASSUME ~overlap' PROVE Consistent'
  <2>1. Consistent /\ ~caFile.exists /\ ran = {} /\ NonePublished
    BY <1>1, <1>4 DEF StoreInv, Consistent, Found
  <2>2. \A q \in Procs : q # p => at[q] \notin Starting
    BY <1>1, <2>1 DEF Consistent, Alone, Starting
  <2>3. Alone' /\ Found'
    BY <1>1, <1>2, <2>1, <2>2 DEF Consistent, Alone, Found, Starting
  <2>4. Writing'
    BY <1>1, <1>2, <2>1, <2>2 DEF Writing, NonePublished, Saving, Saved, Starting
  <2>5. RunStored' /\ PublishedStored'
    BY <1>1, <1>2, <2>1 DEF RunStored, PublishedStored, NonePublished
  <2>6. Unfinished'
    BY <1>1, <1>2, <2>1 DEF Consistent, Unfinished, Saving
  <2> QED
    BY <2>3, <2>4, <2>5, <2>6 DEF Consistent
<1> QED
  BY <1>3, <1>4 DEF StoreInv

\* A process writes a block; alone, it writes it where nobody else does.
LEMMA SaveInv ==
  ASSUME NEW p \in Procs, StoreInv, SaveKey(p) \/ SaveCertificate(p)
  PROVE  StoreInv'
<1> DEFINE key == [caFile.pair EXCEPT !.key = p]
           cert == [caFile.pair EXCEPT !.cert = p]
<1>1. /\ at[p] \in Saving
      /\ UNCHANGED <<published, ca, overlap, ran>>
      /\ at \in [Procs -> Starting \cup Ended \cup {"new", "running"}]
      /\ caFile \in [exists : BOOLEAN, pair : Pairs]
      /\ NoPair \in Pairs /\ key \in Pairs /\ cert \in Pairs
  BY CertAssumption
  DEF SaveKey, SaveCertificate, SaveTo, StoreInv, StoreTypes, Saving, NoPair, Pair, Pairs, Makers
<1>2. StoreTypes'
  <2>1. /\ caFile' \in [exists : BOOLEAN, pair : Pairs]
        /\ at' \in [Procs -> Starting \cup Ended \cup {"new", "running"}]
    BY <1>1 DEF SaveKey, SaveCertificate, SaveTo, Starting
  <2> QED
    BY <1>1, <2>1 DEF StoreInv, StoreTypes
<1>3. ASSUME ~overlap' PROVE Consistent'
  <2>1. Consistent
    BY <1>1, <1>3 DEF StoreInv
  <2>2. /\ caFile.exists /\ ran = {} /\ NonePublished /\ ca[p] = createCert(p)
        /\ \A q \in Procs : q # p => at[q] \notin Starting
    BY <1>1, <2>1 DEF Consistent, Alone, Writing, Saving, Starting
  <2>3. /\ SaveKey(p) => caFile.pair = NoPair
        /\ SaveCertificate(p) => caFile.pair = Pair(p, NoOne)
    BY <2>1 DEF SaveKey, SaveCertificate, Consistent, Writing
  <2>4. CASE SaveKey(p)
    <3>1. /\ at' = [at EXCEPT ![p] = "cert"]
          /\ caFile' = [caFile EXCEPT !.pair = key]
          /\ caFile.pair = NoPair
      BY <2>3, <2>4 DEF SaveKey, SaveTo
    <3>2. caFile'.exists /\ caFile'.pair = Pair(p, NoOne) /\ ~Whole(caFile'.pair)
      BY <1>1, <2>2, <3>1 DEF NoPair, Pair, Whole
    <3>3. Alone' /\ Found' /\ Writing'
      BY <1>1, <2>1, <2>2, <3>1, <3>2
      DEF Consistent, Alone, Found, Writing, NonePublished, Starting, Saving, Saved
    <3>4. RunStored' /\ PublishedStored'
      BY <1>1, <2>2, <3>2 DEF RunStored, PublishedStored, NonePublished
    <3>5. Unfinished'
      BY <1>1, <2>1, <2>2, <3>1, <3>2 DEF Consistent, Unfinished, Saving
    <3> QED
      BY <3>3, <3>4, <3>5 DEF Consistent
  <2>5. CASE SaveCertificate(p)
    <3>1. /\ at' = [at EXCEPT ![p] = "openpem"]
          /\ caFile' = [caFile EXCEPT !.pair = cert]
          /\ caFile.pair = Pair(p, NoOne)
      BY <2>3, <2>5 DEF SaveCertificate, SaveTo
    <3>2. caFile'.exists /\ caFile'.pair = createCert(p)
      BY <1>1, <2>2, <3>1 DEF Pair, createCert
    <3>3. Alone' /\ Found' /\ Writing'
      BY <1>1, <2>1, <2>2, <3>1, <3>2
      DEF Consistent, Alone, Found, Writing, NonePublished, Starting, Saving, Saved
    <3>4. RunStored' /\ PublishedStored'
      BY <1>1, <2>2, <3>2, CreatedIsWhole DEF RunStored, PublishedStored, NonePublished
    <3>5. Unfinished'
      BY <1>1, <2>1, <2>2, <3>1, <3>2, CreatedIsWhole DEF Consistent, Unfinished
    <3> QED
      BY <3>3, <3>4, <3>5 DEF Consistent
  <2> QED
    BY <2>4, <2>5
<1> QED
  BY <1>2, <1>3 DEF StoreInv

\* A process that has saved its CA creates or writes a copy of its certificate.
LEMMA PublishInv ==
  ASSUME NEW p \in Procs, StoreInv, OpenPem(p) \/ WritePem(p) \/ OpenCer(p)
  PROVE  StoreInv'
<1>1. PICK f \in PublishedFiles, content \in {"empty", p}, next \in Saved :
        /\ at[p] \in Saved
        /\ published' = [published EXCEPT ![f] = content]
        /\ at' = [at EXCEPT ![p] = next]
        /\ UNCHANGED <<caFile, ca, overlap, ran>>
  BY DEF OpenPem, WritePem, OpenCer, Publish, Saved, PublishedFiles
<1>2. /\ at \in [Procs -> Starting \cup Ended \cup {"new", "running"}]
      /\ published \in [PublishedFiles -> Makers \cup {"absent", "empty"}]
  BY DEF StoreInv, StoreTypes
<1>3. StoreTypes'
  BY <1>1, <1>2 DEF StoreInv, StoreTypes, Starting, Saved, Makers
<1>4. ASSUME ~overlap' PROVE Consistent'
  <2>1. Consistent
    BY <1>1, <1>4 DEF StoreInv
  <2>2. /\ caFile.exists /\ caFile.pair = createCert(p) /\ ca[p] = createCert(p)
        /\ \A q \in Procs : q # p => at[q] \notin Starting
    BY <1>1, <2>1 DEF Consistent, Alone, Writing, Saved, Starting
  <2>3. Alone' /\ Found' /\ Writing'
    BY <1>1, <1>2, <2>1, <2>2 DEF Consistent, Alone, Found, Writing, Starting, Saving, Saved
  <2>4. RunStored' /\ PublishedStored'
    BY <1>1, <1>2, <2>1, <2>2, CreatedIsWhole DEF Consistent, RunStored, PublishedStored
  <2>5. Unfinished'
    BY <1>1, <1>2, <2>1, <2>2, CreatedIsWhole DEF Consistent, Unfinished, Saved
  <2> QED
    BY <2>3, <2>4, <2>5 DEF Consistent
<1> QED
  BY <1>3, <1>4 DEF StoreInv

\* The last copy is written and the process runs with what it has saved.
LEMMA WriteCerInv ==
  ASSUME NEW p \in Procs, StoreInv, WriteCer(p)
  PROVE  StoreInv'
<1>1. /\ at[p] = "cer"
      /\ published' = [published EXCEPT !["cer"] = p]
      /\ at' = [at EXCEPT ![p] = "running"]
      /\ ca' = [ca EXCEPT ![p] = ca[p]]
      /\ ran' = ran \cup {ca[p]}
      /\ UNCHANGED <<caFile, overlap>>
  BY DEF WriteCer, RunsWith
<1>2. /\ at \in [Procs -> Starting \cup Ended \cup {"new", "running"}]
      /\ published \in [PublishedFiles -> Makers \cup {"absent", "empty"}]
      /\ ca \in [Procs -> Pairs]
  BY DEF StoreInv, StoreTypes
<1>3. ca' = ca
  BY <1>1, <1>2
<1>4. StoreTypes'
  BY <1>1, <1>2, <1>3 DEF StoreInv, StoreTypes, Makers
<1>5. ASSUME ~overlap' PROVE Consistent'
  <2>1. Consistent
    BY <1>1, <1>5 DEF StoreInv
  <2>2. /\ caFile.exists /\ caFile.pair = createCert(p) /\ ca[p] = createCert(p)
        /\ \A q \in Procs : q # p => at[q] \notin Starting
    BY <1>1, <2>1 DEF Consistent, Alone, Writing, Saved, Starting
  <2>3. Alone' /\ Found' /\ Writing'
    BY <1>1, <1>2, <1>3, <2>1, <2>2 DEF Consistent, Alone, Found, Writing, Starting, Saving, Saved
  <2>4. RunStored' /\ PublishedStored'
    BY <1>1, <1>2, <2>1, <2>2, CreatedIsWhole DEF Consistent, RunStored, PublishedStored
  <2>5. Unfinished'
    BY <1>1, <1>2, <2>1, <2>2, CreatedIsWhole DEF Consistent, Unfinished
  <2> QED
    BY <2>3, <2>4, <2>5 DEF Consistent
<1> QED
  BY <1>4, <1>5 DEF StoreInv

\* A process ends, with an error or by being killed; what it leaves is Unfinished.
LEMMA EndInv ==
  ASSUME NEW p \in Procs, StoreInv, CallFails(p) \/ Dies(p)
  PROVE  StoreInv'
<1>1. PICK end \in {"dead", "error"} :
        /\ at' = [at EXCEPT ![p] = end]
        /\ UNCHANGED <<caFile, published, ca, overlap, ran>>
  BY DEF CallFails, Dies
<1>2. at \in [Procs -> Starting \cup Ended \cup {"new", "running"}]
  BY DEF StoreInv, StoreTypes
<1>3. StoreTypes'
  BY <1>1, <1>2 DEF StoreInv, StoreTypes, Ended
<1>4. ASSUME ~overlap' PROVE Consistent'
  <2>1. Consistent
    BY <1>1, <1>4 DEF StoreInv
  <2>2. Alone' /\ Found' /\ Writing'
    BY <1>1, <1>2, <2>1 DEF Consistent, Alone, Found, Writing, NonePublished, Starting, Saving, Saved
  <2>3. RunStored' /\ PublishedStored'
    BY <1>1, <2>1 DEF Consistent, RunStored, PublishedStored
  <2>4. Unfinished'
    BY <1>1, <1>2, <2>1 DEF Consistent, Unfinished, Saving
  <2> QED
    BY <2>2, <2>3, <2>4 DEF Consistent
<1> QED
  BY <1>3, <1>4 DEF StoreInv

\* GetCert and a step that changes nothing leave the store alone.
LEMMA UnchangedInv == StoreInv /\ UNCHANGED storeVars => StoreInv'
BY DEF StoreInv, storeVars, StoreTypes, Consistent, Alone, Found, Writing, NonePublished,
       RunStored, PublishedStored, Unfinished

\* StoreInv is inductive.
LEMMA NextInv == StoreInv /\ [CertNext]_vars => StoreInv'
<1> SUFFICES ASSUME StoreInv, [CertNext]_vars PROVE StoreInv'
  OBVIOUS
<1>1. ASSUME NEW p \in Procs, Start(p) PROVE StoreInv'
  BY <1>1, NewCAInv, LoadInv, CreateInv, SaveInv, PublishInv, WriteCerInv DEF Start
<1>2. ASSUME NEW p \in Procs, CallFails(p) \/ Dies(p) PROVE StoreInv'
  BY <1>2, EndInv
<1>3. ASSUME NEW c \in Calls, NEW n \in Names, Lookup(c, n) PROVE StoreInv'
  BY <1>3, UnchangedInv DEF Lookup
<1>4. ASSUME NEW c \in Calls, GetCert(c) PROVE StoreInv'
  BY <1>4, UnchangedInv DEF GetCert, Do, DummyCert, DummyCertFails, Forget
<1>5. ASSUME AllEnded \/ UNCHANGED vars PROVE StoreInv'
  BY <1>5, UnchangedInv DEF AllEnded, vars, storeVars
<1> QED
  BY <1>1, <1>2, <1>3, <1>4, <1>5 DEF CertNext

\* The invariant holds in every behaviour of the certificate store.
THEOREM StoreInvariance == CertSpec => []StoreInv
<1>1. CertInit => StoreInv
  BY InitInv
<1>2. StoreInv /\ [CertNext]_vars => StoreInv'
  BY NextInv
<1> QED
  BY <1>1, <1>2, PTL DEF CertSpec

\* However many processes start, fail and die one after the other, all that ever
\* run have the same CA (NewCA, load, create).
THEOREM RootIsOne == CertSpec => []OneRoot
<1>1. StoreInv => OneRoot
  BY DEF StoreInv, Consistent, RunStored, OneRoot
<1> QED
  BY <1>1, StoreInvariance, PTL

\* The certificate that users install is never one of a CA that is not in the
\* store (saveCert after save), for any number of processes and failures.
THEOREM PublishedBelongs == CertSpec => []PublishedIsStored
<1>1. StoreInv => PublishedIsStored
  BY DEF StoreInv, Consistent, PublishedStored, PublishedIsStored
<1> QED
  BY <1>1, StoreInvariance, PTL

\* load refuses a store only after a process has failed or died while writing it,
\* two were in NewCA at once, or when a user's CA in it is not RSA, in no known
\* encoding or without a certificate.
THEOREM IntactNotRefused == CertSpec => []RefusedOnlyAfterFailure
<1>1. StoreInv => RefusedOnlyAfterFailure
  <2> SUFFICES ASSUME StoreInv, ~overlap, \E p \in Procs : at[p] = "refused"
               PROVE  \/ UserCAUnusable
                      \/ \E q \in Procs : /\ at[q] \in {"dead", "error"}
                                         /\ ca[q] = createCert(q) /\ ca[q] \notin ran
    BY DEF RefusedOnlyAfterFailure
  <2>1. Consistent /\ caFile.pair \in Pairs
    BY DEF StoreInv, StoreTypes
  <2>2. caFile.exists /\ ~Loads(caFile.pair) /\ \A q \in Procs : at[q] \notin Saving
    BY <2>1 DEF Consistent, Unfinished
  <2>3. CASE ~Whole(caFile.pair)
    BY <2>1, <2>2, <2>3 DEF Consistent, Unfinished
  <2>4. CASE Whole(caFile.pair)
    <3>1. ~ParseKey(caFile.pair.key) \/ ~ParseCertificate(caFile.pair.cert)
      BY <2>2, <2>4 DEF Loads
    <3> QED
      BY <3>1, CertAssumption DEF ParseKey, ParseCertificate, UserCAUnusable
  <2> QED
    BY <2>3, <2>4
<1> QED
  BY <1>1, StoreInvariance, PTL
-----------------------------------------------------------------------------
(* GetCert                                                                  *)

\* The cache without a name holds entries of the cache.
LEMMA WithoutFacts ==
  ASSUME NEW n, cache \in Seq(Certs)
  PROVE  /\ Without(n) \in Seq(Certs)
         /\ \A i \in DOMAIN Without(n) : \E j \in DOMAIN cache : Without(n)[i] = cache[j]
<1>1. CASE Cached(n) = {}
  BY <1>1 DEF Without
<1>2. CASE Cached(n) # {}
  <2> DEFINE k == Position(n)
             before == SubSeq(cache, 1, k - 1)
             after == SubSeq(cache, k + 1, Len(cache))
  <2>1. k \in 1..Len(cache)
    BY <1>2 DEF Position, Cached
  <2> HIDE DEF k
  <2>2. /\ before \in Seq(Certs) /\ Len(before) = k - 1
        /\ \A i \in 1..(k - 1) : before[i] = cache[i]
    BY <2>1
  <2>3. /\ after \in Seq(Certs) /\ Len(after) = Len(cache) - k
        /\ \A i \in 1..(Len(cache) - k) : after[i] = cache[k + i]
    BY <2>1
  <2>4. Without(n) = before \o after
    BY <1>2 DEF Without, k
  <2> HIDE DEF before, after
  <2>5. Len(before \o after) = Len(cache) - 1 /\ before \o after \in Seq(Certs)
    BY <2>1, <2>2, <2>3
  <2>6. ASSUME NEW i \in 1..(Len(cache) - 1)
        PROVE  \E j \in DOMAIN cache : (before \o after)[i] = cache[j]
    <3>1. CASE i \leq k - 1
      <4>1. (before \o after)[i] = cache[i] /\ i \in DOMAIN cache
        BY <2>1, <2>2, <2>3, <3>1
      <4> QED
        BY <4>1
    <3>2. CASE i > k - 1
      <4>1. /\ i - (k - 1) \in 1..(Len(cache) - k) /\ i + 1 \in 1..Len(cache)
            /\ i \in 1..(Len(before) + Len(after)) /\ ~(i <= Len(before))
            /\ k + (i - (k - 1)) = i + 1
        BY <2>1, <2>2, <2>3, <3>2
      <4>2. (before \o after)[i] = after[i - Len(before)]
        BY <2>2, <2>3, <4>1
      <4>3. after[i - Len(before)] = cache[i + 1]
        BY <2>2, <2>3, <4>1
      <4> QED
        BY <4>1, <4>2, <4>3
    <3>3. i <= k - 1 \/ i > k - 1
      BY <2>1
    <3> QED
      BY <3>1, <3>2, <3>3
  <2> QED
    BY <2>4, <2>5, <2>6
<1> QED
  BY <1>1, <1>2

\* Adding an entry keeps the cache within its size and brings in nothing else.
LEMMA AddFacts ==
  ASSUME NEW e \in Certs, cache \in Seq(Certs)
  PROVE  /\ Add(e) \in Seq(Certs) /\ Len(Add(e)) <= MaxEntries
         /\ \A i \in DOMAIN Add(e) : Add(e)[i] = e \/ \E j \in DOMAIN cache : Add(e)[i] = cache[j]
<1> DEFINE rest == Without(e.name)
           entries == <<e>> \o rest
           m == IF Len(entries) > MaxEntries THEN MaxEntries ELSE Len(entries)
<1>1. /\ rest \in Seq(Certs)
      /\ \A i \in DOMAIN rest : \E j \in DOMAIN cache : rest[i] = cache[j]
  BY WithoutFacts
<1>2. Add(e) = SubSeq(entries, 1, m)
  BY DEF Add
<1> HIDE DEF rest
<1>3. /\ entries \in Seq(Certs) /\ Len(entries) = Len(rest) + 1
      /\ entries[1] = e
      /\ \A i \in 2..Len(entries) : entries[i] = rest[i - 1]
  BY <1>1
<1> HIDE DEF entries
<1>4. m \in Nat /\ m <= Len(entries) /\ m <= MaxEntries
  BY <1>3, CertAssumption
<1> HIDE DEF m
<1>5. /\ Add(e) \in Seq(Certs) /\ Len(Add(e)) = m
      /\ \A i \in 1..m : Add(e)[i] = entries[i]
  BY <1>2, <1>3, <1>4
<1>6. ASSUME NEW i \in 1..m
      PROVE  entries[i] = e \/ \E j \in DOMAIN cache : entries[i] = cache[j]
  <2>1. CASE i = 1
    BY <1>3, <2>1
  <2>2. CASE i # 1
    <3>1. i \in 2..Len(entries) /\ i - 1 \in DOMAIN rest
      BY <1>1, <1>3, <1>4, <2>2
    <3> QED
      BY <1>1, <1>3, <3>1
  <2> QED
    BY <2>1, <2>2
<1> QED
  BY <1>4, <1>5, <1>6

\* A good entry added to a good cache.
LEMMA AddGood ==
  ASSUME GetInv, NEW e \in Certs, Verifies(e), cache' = Add(e), UNCHANGED ca
  PROVE  /\ cache' \in Seq(Certs) /\ Len(cache') <= MaxEntries
         /\ \A i \in DOMAIN cache' : cache'[i].signer = ca'[Observed].cert
<1>1. /\ cache' \in Seq(Certs) /\ Len(cache') <= MaxEntries
      /\ \A i \in DOMAIN cache' : cache'[i] = e \/ \E j \in DOMAIN cache : cache'[i] = cache[j]
  BY AddFacts DEF GetInv, GetTypes
<1>2. \A j \in DOMAIN cache : Verifies(cache[j])
  BY DEF GetInv, Good
<1> QED
  BY <1>1, <1>2 DEF Verifies

\* The initial state: no call, nothing cached.
LEMMA InitGet == CertInit => GetInv
<1> SUFFICES ASSUME CertInit PROVE GetInv
  OBVIOUS
<1>1. /\ at = [p \in Procs |-> "new"]
      /\ cache = <<>>
      /\ flight = [n \in Names |-> NoOne]
      /\ call = [c \in Calls |-> Idle]
  BY DEF CertInit
<1>2. Idle \in CallRecord /\ Idle.at = "idle"
  BY DEF Idle, CallRecord
<1>3. Len(cache) <= MaxEntries /\ cache \in Seq(Certs)
  BY <1>1, CertAssumption
<1>4. GetTypes
  BY <1>1, <1>2, <1>3 DEF GetTypes
<1>5. OwnCA /\ NeedsCA /\ Leads /\ Follows
  BY <1>1, <1>2, CertAssumption DEF OwnCA, NeedsCA, Leads, Follows, Saving, Saved
<1>6. Good
  BY <1>1, <1>2 DEF Good
<1> QED
  BY <1>4, <1>5, <1>6 DEF GetInv

\* A step of NewCA, or the end of another process, changes nothing that GetCert uses.
LEMMA StoreStepGet ==
  ASSUME NEW p \in Procs, NEW to, NEW pair, StoreTypes, GetInv,
         p # Observed \/ at[p] \notin {"running", "dead"},
         at' = [at EXCEPT ![p] = to], ca' = [ca EXCEPT ![p] = pair],
         to = "running" => Whole(pair), to \in Saving \cup Saved => pair = createCert(p),
         UNCHANGED cacheVars
  PROVE  GetInv'
<1>1. /\ at \in [Procs -> Starting \cup Ended \cup {"new", "running"}]
      /\ ca \in [Procs -> Pairs]
      /\ UNCHANGED <<cache, flight, call>>
      /\ Observed \in Procs
  BY CertAssumption DEF StoreTypes, cacheVars
<1>2. GetTypes' /\ Leads' /\ Follows'
  BY <1>1 DEF GetInv, GetTypes, Leads, Follows
<1>3. OwnCA'
  BY <1>1 DEF GetInv, OwnCA
<1>4. CASE p # Observed
  <2>1. at'[Observed] = at[Observed] /\ ca'[Observed] = ca[Observed]
    BY <1>1, <1>4
  <2>2. NeedsCA'
    BY <1>1, <2>1 DEF GetInv, NeedsCA
  <2>3. Good'
    BY <1>1, <2>1 DEF GetInv, Good, Verifies
  <2> QED
    BY <1>2, <1>3, <2>2, <2>3 DEF GetInv
<1>5. CASE p = Observed /\ at[p] \notin {"running", "dead"}
  <2>1. cache = <<>> /\ \A c \in Calls : call[c].at = "idle"
    BY <1>5 DEF GetInv, NeedsCA
  <2>2. NeedsCA'
    BY <1>1, <2>1 DEF NeedsCA
  <2>3. DOMAIN cache = {}
    BY <2>1
  <2>4. Good'
    BY <1>1, <2>1, <2>3 DEF Good
  <2> QED
    BY <1>2, <1>3, <2>2, <2>4 DEF GetInv
<1> QED
  BY <1>4, <1>5

\* Every step of NewCA is such a step.
LEMMA StartGet ==
  ASSUME NEW p \in Procs, StoreTypes, GetInv, Start(p) \/ CallFails(p)
  PROVE  GetInv'
<1>1. /\ at \in [Procs -> Starting \cup Ended \cup {"new", "running"}]
      /\ ca \in [Procs -> Pairs]
      /\ [ca EXCEPT ![p] = ca[p]] = ca
  BY DEF StoreTypes
<1>2. CASE NewCA(p)
  <2>1. PICK to \in {"read", "create"} :
          at[p] = "new" /\ at' = [at EXCEPT ![p] = to] /\ UNCHANGED <<ca, cacheVars>>
    BY <1>2 DEF NewCA
  <2> QED
    BY <1>1, <2>1, StoreStepGet DEF Saving, Saved
<1>3. CASE Load(p)
  <2>1. at[p] = "read" /\ UNCHANGED cacheVars
    BY <1>3 DEF Load
  <2>2. CASE Loads(caFile.pair)
    BY <1>3, <2>1, <2>2, StoreStepGet DEF Load, Loads, RunsWith, Saving, Saved
  <2>3. CASE ~Loads(caFile.pair)
    BY <1>1, <1>3, <2>1, <2>3, StoreStepGet DEF Load, Saving, Saved
  <2> QED
    BY <2>2, <2>3
<1>4. CASE Create(p)
  BY <1>4, StoreStepGet DEF Create
<1>5. CASE SaveKey(p) \/ SaveCertificate(p) \/ OpenPem(p) \/ WritePem(p) \/ OpenCer(p)
  <2>1. PICK to \in Saving \cup Saved :
          /\ at[p] \in Saving \cup Saved
          /\ at' = [at EXCEPT ![p] = to] /\ UNCHANGED <<ca, cacheVars>>
    BY <1>5 DEF SaveKey, SaveCertificate, SaveTo, OpenPem, WritePem, OpenCer, Publish, Saving, Saved
  <2>2. ca[p] = createCert(p) /\ at[p] \notin {"running", "dead"} /\ to # "running"
    BY <2>1 DEF GetInv, OwnCA, Saving, Saved
  <2> QED
    BY <1>1, <2>1, <2>2, StoreStepGet
<1>6. CASE WriteCer(p)
  <2>1. at[p] = "cer" /\ at' = [at EXCEPT ![p] = "running"] /\ ca' = [ca EXCEPT ![p] = ca[p]]
        /\ UNCHANGED cacheVars
    BY <1>6 DEF WriteCer, RunsWith
  <2>2. ca[p] = createCert(p)
    BY <2>1 DEF GetInv, OwnCA, Saved
  <2>3. Whole(ca[p])
    BY <2>2, CreatedIsWhole
  <2> QED
    BY <2>1, <2>3, StoreStepGet DEF Saving, Saved
<1>7. CASE CallFails(p)
  <2>1. at[p] \notin {"running", "dead"} /\ at' = [at EXCEPT ![p] = "error"]
        /\ UNCHANGED <<ca, cacheVars>>
    BY <1>7 DEF CallFails, Starting
  <2> QED
    BY <1>1, <2>1, StoreStepGet DEF Saving, Saved
<1> QED
  BY <1>2, <1>3, <1>4, <1>5, <1>6, <1>7 DEF Start

\* The end of the observed process ends its calls; what was returned stays.
LEMMA DiesGet ==
  ASSUME NEW p \in Procs, StoreTypes, GetInv, Dies(p)
  PROVE  GetInv'
<1>1. /\ at \in [Procs -> Starting \cup Ended \cup {"new", "running"}]
      /\ ca \in [Procs -> Pairs]
      /\ [ca EXCEPT ![p] = ca[p]] = ca
      /\ at' = [at EXCEPT ![p] = "dead"] /\ UNCHANGED ca
  BY DEF StoreTypes, Dies
<1>2. CASE p # Observed
  BY <1>1, <1>2, StoreStepGet DEF Dies, Saving, Saved
<1>3. CASE p = Observed
  <2>1. /\ cache' = <<>>
        /\ flight' = [n \in Names |-> NoOne]
        /\ call' = [c \in Calls |-> IF call[c].at = "returned" THEN call[c] ELSE Idle]
        /\ at'[Observed] = "dead"
    BY <1>1, <1>3 DEF Dies
  <2>2. /\ Idle \in CallRecord /\ Idle.at = "idle"
        /\ call \in [Calls -> CallRecord]
    BY DEF Idle, CallRecord, GetInv, GetTypes
  <2>3. \A c \in Calls : call'[c].at = "idle" \/ (call'[c] = call[c] /\ call[c].at = "returned")
    BY <2>1, <2>2
  <2>4. cache' \in Seq(Certs) /\ Len(cache') <= MaxEntries /\ DOMAIN cache' = {}
    BY <2>1, CertAssumption
  <2>5. GetTypes'
    BY <2>1, <2>2, <2>4 DEF GetTypes
  <2>6. OwnCA'
    BY <1>1 DEF GetInv, OwnCA, Saving, Saved
  <2>7. NeedsCA'
    BY <2>1, <2>3 DEF NeedsCA
  <2>8. Leads' /\ Follows'
    BY <2>1, <2>3 DEF Leads, Follows
  <2>9. Good'
    BY <1>1, <2>3, <2>4 DEF GetInv, Good, Verifies
  <2> QED
    BY <2>5, <2>6, <2>7, <2>8, <2>9 DEF GetInv
<1> QED
  BY <1>2, <1>3

\* Types of a state in which a call is under way.
LEMMA CallFacts ==
  ASSUME NEW c \in Calls, StoreTypes, GetInv, call[c].at \notin {"idle", "returned"}
  PROVE  /\ at[Observed] = "running" /\ Whole(ca[Observed])
         /\ call[c].name \in Names /\ call[c] \in CallRecord
         /\ ca[Observed] \in Pairs
<1>1. call[c] \in CallRecord /\ at[Observed] = "running" /\ Observed \in Procs
  BY CertAssumption DEF GetInv, GetTypes, NeedsCA
<1>2. Whole(ca[Observed]) /\ ca[Observed] \in Pairs
  BY <1>1 DEF GetInv, OwnCA, StoreTypes
<1>3. call[c].name \in Names
  BY <1>1 DEF GetInv, Follows, CallRecord
<1> QED
  BY <1>1, <1>2, <1>3

\* A call asks the cache: a hit returns a good entry.
LEMMA LookupGet ==
  ASSUME NEW c \in Calls, NEW n \in Names, StoreTypes, GetInv, Lookup(c, n)
  PROVE  GetInv'
<1>1. /\ at[Observed] = "running" /\ call[c].at = "idle"
      /\ UNCHANGED <<at, ca, flight>>
      /\ call \in [Calls -> CallRecord] /\ cache \in Seq(Certs)
      /\ flight \in [Names -> Calls \cup {NoOne}]
  BY DEF Lookup, storeVars, GetInv, GetTypes
<1>2. OwnCA'
  BY <1>1 DEF GetInv, OwnCA
<1> DEFINE hit == [Idle EXCEPT !.at = "returned", !.name = n, !.result = cache[Position(n)]]
           miss == [Idle EXCEPT !.at = "missed", !.name = n]
<1>3. \A x \in CallRecord : x.at # "minting" /\ x.at # "waiting" /\ x.at # "landed" /\ x.name = n
        /\ call' = [call EXCEPT ![c] = x] => Leads' /\ Follows' /\ NeedsCA'
  BY <1>1 DEF GetInv, Leads, Follows, NeedsCA
<1>4. CASE Cached(n) # {}
  <2>1. Position(n) \in DOMAIN cache /\ cache[Position(n)].name = n
    BY <1>4 DEF Position, Cached
  <2>2. cache[Position(n)] \in Certs /\ Verifies(cache[Position(n)])
    BY <1>1, <2>1 DEF GetInv, Good
  <2>3. cache' = Add(cache[Position(n)]) /\ call' = [call EXCEPT ![c] = hit]
    BY <1>4 DEF Lookup
  <2>4. /\ hit \in CallRecord /\ hit.at = "returned" /\ hit.name = n
        /\ hit.result = cache[Position(n)]
    BY <2>2 DEF Idle, CallRecord
  <2> HIDE DEF hit
  <2>5. /\ cache' \in Seq(Certs) /\ Len(cache') <= MaxEntries
        /\ \A i \in DOMAIN cache' : cache'[i].signer = ca'[Observed].cert
    BY <1>1, <2>2, <2>3, AddGood
  <2>6. GetTypes'
    BY <1>1, <2>3, <2>4, <2>5 DEF GetTypes
  <2>7. Leads' /\ Follows' /\ NeedsCA'
    BY <1>3, <2>3, <2>4
  <2>8. Good'
    BY <1>1, <2>1, <2>2, <2>3, <2>4, <2>5 DEF GetInv, Good, Verifies
  <2> QED
    BY <1>2, <2>6, <2>7, <2>8 DEF GetInv
<1>5. CASE Cached(n) = {}
  <2>1. call' = [call EXCEPT ![c] = miss] /\ UNCHANGED cache
    BY <1>5 DEF Lookup
  <2>2. miss \in CallRecord /\ miss.at = "missed" /\ miss.name = n
    BY DEF Idle, CallRecord
  <2> HIDE DEF miss
  <2>3. GetTypes'
    BY <1>1, <2>1, <2>2 DEF GetInv, GetTypes
  <2>4. Leads' /\ Follows' /\ NeedsCA'
    BY <1>3, <2>1, <2>2
  <2>5. Good'
    BY <1>1, <2>1, <2>2 DEF GetInv, Good, Verifies
  <2> QED
    BY <1>2, <2>3, <2>4, <2>5 DEF GetInv
<1> QED
  BY <1>4, <1>5

\* A call that missed leads the flight of its name, or joins the one there is.
LEMMA DoGet ==
  ASSUME NEW c \in Calls, StoreTypes, GetInv, Do(c)
  PROVE  GetInv'
<1> DEFINE n == call[c].name
           leader == flight[n]
<1>1. /\ call[c].at = "missed"
      /\ UNCHANGED <<at, ca, cache>>
      /\ call \in [Calls -> CallRecord] /\ call[c] \in CallRecord
      /\ flight \in [Names -> Calls \cup {NoOne}]
      /\ cache \in Seq(Certs) /\ Len(cache) <= MaxEntries
  BY DEF Do, storeVars, GetInv, GetTypes
<1>2. at[Observed] = "running" /\ n \in Names
  BY <1>1, CallFacts
<1>3. OwnCA'
  BY <1>1 DEF GetInv, OwnCA
<1>4. CASE leader = NoOne
  <2> DEFINE x == [call[c] EXCEPT !.at = "minting"]
  <2>1. call' = [call EXCEPT ![c] = x] /\ flight' = [flight EXCEPT ![n] = c]
    BY <1>1, <1>4 DEF Do
  <2>2. x \in CallRecord /\ x.at = "minting" /\ x.name = n
    BY <1>1 DEF CallRecord
  <2> HIDE DEF x, n
  <2>3. GetTypes'
    BY <1>1, <1>2, <2>1, <2>2 DEF GetTypes
  <2>4. NeedsCA'
    BY <1>1, <1>2 DEF NeedsCA
  <2>5. Leads'
    BY <1>1, <1>2, <2>1, <2>2 DEF GetInv, Leads
  <2>6. Follows'
    BY <1>1, <1>2, <2>1, <2>2 DEF GetInv, Follows
  <2>7. Good'
    BY <1>1, <2>1, <2>2 DEF GetInv, Good, Verifies
  <2> QED
    BY <1>3, <2>3, <2>4, <2>5, <2>6, <2>7 DEF GetInv
<1>5. CASE leader # NoOne
  <2>1. /\ leader \in Calls /\ leader # c /\ call[leader].name = n
        /\ call[leader].at \in {"minting", "landed"}
    BY <1>1, <1>2, <1>5 DEF GetInv, Leads
  <2> DEFINE wait == [call[c] EXCEPT !.at = "waiting", !.leader = leader]
             join == [call[c] EXCEPT !.at = "returned", !.result = call[leader].result]
             x == IF call[leader].at = "minting" THEN wait ELSE join
  <2>2. call' = [call EXCEPT ![c] = x] /\ UNCHANGED flight
    BY <1>1, <1>5 DEF Do
  <2>3. call[leader] \in CallRecord /\ call[leader].result \in Certs \cup {Failed}
    BY <1>1, <2>1 DEF CallRecord
  <2>4. /\ x \in CallRecord /\ x.name = n /\ x.at \in {"waiting", "returned"}
        /\ x.at = "waiting" => call[leader].at = "minting" /\ x.leader = leader
        /\ x.at = "returned" => call[leader].at = "landed" /\ x.result = call[leader].result
    BY <1>1, <2>1, <2>3 DEF CallRecord
  <2>5. \A d \in Calls : d # c => call'[d] = call[d]
    BY <1>1, <2>2
  <2>6. call'[c] = x
    BY <1>1, <2>2
  <2> HIDE DEF x, leader
  <2>7. GetTypes'
    BY <1>1, <2>2, <2>4 DEF GetTypes
  <2>8. NeedsCA'
    BY <1>1, <1>2 DEF NeedsCA
  <2>9. Leads'
    BY <1>1, <2>2, <2>5 DEF GetInv, Leads
  <2>10. Follows'
    BY <1>1, <1>2, <2>1, <2>4, <2>5, <2>6 DEF GetInv, Follows
  <2>11. Good'
    <3>1. ASSUME NEW d \in Calls, call'[d].at \in {"landed", "returned"}, call'[d].result # Failed
          PROVE  call'[d].result.name = call'[d].name /\ call'[d].result.signer = ca'[Observed].cert
      BY <1>1, <2>1, <2>4, <2>5, <2>6, <3>1 DEF GetInv, Good, Verifies
    <3> QED
      BY <1>1, <3>1 DEF GetInv, Good, Verifies
  <2> QED
    BY <1>3, <2>7, <2>8, <2>9, <2>10, <2>11 DEF GetInv
<1> QED
  BY <1>4, <1>5

\* The result of a leader reaches the calls that wait for it: they asked for its name.
LEMMA DeliverGet ==
  ASSUME NEW c \in Calls, NEW result \in Certs \cup {Failed}, StoreTypes, GetInv,
         call[c].at = "minting", Deliver(c, result), UNCHANGED <<at, ca, flight>>,
         result # Failed => result.name = call[c].name /\ Verifies(result),
         cache' \in Seq(Certs), Len(cache') <= MaxEntries,
         \A i \in DOMAIN cache' : cache'[i].signer = ca'[Observed].cert
  PROVE  GetInv'
<1>1. /\ at[Observed] = "running" /\ call[c].name \in Names
      /\ call \in [Calls -> CallRecord]
      /\ flight \in [Names -> Calls \cup {NoOne}]
  BY CallFacts DEF GetInv, GetTypes
<1>2. ASSUME NEW d \in Calls
      PROVE  /\ call'[d] \in CallRecord /\ call'[d].name = call[d].name
             /\ call'[d].leader = call[d].leader
             /\ \/ /\ d = c /\ call'[d].at = "landed" /\ call'[d].result = result
                \/ /\ d # c /\ call[d].at = "waiting" /\ call[d].leader = c
                   /\ call'[d].at = "returned" /\ call'[d].result = result
                \/ /\ d # c /\ ~(call[d].at = "waiting" /\ call[d].leader = c)
                   /\ call'[d] = call[d]
  <2>1. call[d] \in CallRecord
    BY <1>1
  <2>2. CASE d = c
    BY <2>1, <2>2 DEF Deliver, CallRecord
  <2>3. CASE d # c /\ call[d].at = "waiting" /\ call[d].leader = c
    BY <2>1, <2>3 DEF Deliver, CallRecord
  <2>4. CASE d # c /\ ~(call[d].at = "waiting" /\ call[d].leader = c)
    BY <2>1, <2>4 DEF Deliver
  <2> QED
    BY <2>2, <2>3, <2>4
<1>3. call' \in [Calls -> CallRecord]
  BY <1>2 DEF Deliver
<1>4. GetTypes'
  BY <1>1, <1>3 DEF GetTypes
<1>5. OwnCA' /\ NeedsCA'
  BY <1>1 DEF GetInv, OwnCA, NeedsCA
<1>6. Leads'
  BY <1>1, <1>2 DEF GetInv, Leads
<1>7. Follows'
  <2>1. ASSUME NEW d \in Calls PROVE
          /\ call'[d].at \in {"missed", "waiting", "minting", "landed"} => call'[d].name \in Names
          /\ call'[d].at = "waiting" =>
               /\ call'[d].leader \in Calls
               /\ call'[call'[d].leader].at = "minting"
               /\ call'[call'[d].leader].name = call'[d].name
    BY <1>1, <1>2 DEF GetInv, Follows
  <2> QED
    BY <2>1 DEF Follows
<1>8. Good'
  <2>1. ASSUME NEW d \in Calls, call'[d].at \in {"landed", "returned"}, call'[d].result # Failed
        PROVE  call'[d].result.name = call'[d].name /\ call'[d].result.signer = ca'[Observed].cert
    <3>1. CASE call'[d].result = result /\ call[d].name = call[c].name
      BY <1>2, <2>1, <3>1 DEF Verifies
    <3>2. CASE call'[d] = call[d]
      BY <2>1, <3>2 DEF GetInv, Good, Verifies
    <3> QED
      BY <1>2, <3>1, <3>2 DEF GetInv, Follows
  <2> QED
    BY <2>1 DEF Good, Verifies
<1> QED
  BY <1>4, <1>5, <1>6, <1>7, <1>8 DEF GetInv

\* A minted certificate verifies: it is refused unless the key is the root's.
LEMMA DummyCertGet ==
  ASSUME NEW c \in Calls, StoreTypes, GetInv, DummyCert(c) \/ DummyCertFails(c)
  PROVE  GetInv'
<1>1. call[c].at = "minting" /\ UNCHANGED <<at, ca, flight>>
  BY DEF DummyCert, DummyCertFails, storeVars
<1>2. CASE DummyCert(c)
  <2> DEFINE made == Cert(call[c].name, ca[Observed].key, c)
  <2>1. Deliver(c, made) /\ cache' = Add(made) /\ ca[Observed].key = ca[Observed].cert
    BY <1>2 DEF DummyCert
  <2>2. ca[Observed].key \in Makers /\ call[c].name \in Names
    BY <1>1, CallFacts DEF Whole, Pairs
  <2>3. made \in Certs /\ made.name = call[c].name /\ Verifies(made)
    BY <2>1, <2>2 DEF Cert, Certs, Verifies
  <2> HIDE DEF made
  <2>4. /\ cache' \in Seq(Certs) /\ Len(cache') <= MaxEntries
        /\ \A i \in DOMAIN cache' : cache'[i].signer = ca'[Observed].cert
    BY <1>1, <2>1, <2>3, AddGood
  <2> QED
    BY <1>1, <2>1, <2>3, <2>4, DeliverGet
<1>3. CASE DummyCertFails(c)
  <2>1. Deliver(c, Failed) /\ UNCHANGED cache
    BY <1>3 DEF DummyCertFails
  <2>2. /\ cache' \in Seq(Certs) /\ Len(cache') <= MaxEntries
        /\ \A i \in DOMAIN cache' : cache'[i].signer = ca'[Observed].cert
    BY <1>1, <2>1 DEF GetInv, GetTypes, Good, Verifies
  <2> QED
    BY <1>1, <2>1, <2>2, DeliverGet
<1> QED
  BY <1>2, <1>3

\* The end of a flight.  Nobody waits for a call that has landed.
LEMMA ForgetGet ==
  ASSUME NEW c \in Calls, StoreTypes, GetInv, Forget(c)
  PROVE  GetInv'
<1> DEFINE x == [call[c] EXCEPT !.at = "returned"]
<1>1. /\ call[c].at = "landed"
      /\ call' = [call EXCEPT ![c] = x]
      /\ flight' = [flight EXCEPT ![call[c].name] = NoOne]
      /\ UNCHANGED <<at, ca, cache>>
      /\ call \in [Calls -> CallRecord] /\ call[c] \in CallRecord
      /\ flight \in [Names -> Calls \cup {NoOne}]
      /\ cache \in Seq(Certs) /\ Len(cache) <= MaxEntries
  BY DEF Forget, storeVars, GetInv, GetTypes
<1>2. at[Observed] = "running" /\ call[c].name \in Names
  BY <1>1, CallFacts
<1>3. x \in CallRecord /\ x.at = "returned" /\ x.name = call[c].name /\ x.result = call[c].result
  BY <1>1 DEF CallRecord
<1> HIDE DEF x
<1>4. GetTypes'
  BY <1>1, <1>2, <1>3 DEF GetTypes
<1>5. OwnCA' /\ NeedsCA'
  BY <1>1, <1>2 DEF GetInv, OwnCA, NeedsCA
<1>6. Leads'
  BY <1>1, <1>2, <1>3 DEF GetInv, Leads
<1>7. Follows'
  BY <1>1, <1>2, <1>3 DEF GetInv, Follows
<1>8. Good'
  BY <1>1, <1>3 DEF GetInv, Good, Verifies
<1> QED
  BY <1>4, <1>5, <1>6, <1>7, <1>8 DEF GetInv

\* GetInv is inductive beside the invariant of the store.
LEMMA NextGet == StoreInv /\ GetInv /\ [CertNext]_vars => GetInv'
<1> SUFFICES ASSUME StoreInv, GetInv, [CertNext]_vars PROVE GetInv'
  OBVIOUS
<1>1. StoreTypes
  BY DEF StoreInv
<1>2. ASSUME NEW p \in Procs, Start(p) \/ CallFails(p) \/ Dies(p) PROVE GetInv'
  BY <1>1, <1>2, StartGet, DiesGet
<1>3. ASSUME NEW c \in Calls, NEW n \in Names, Lookup(c, n) PROVE GetInv'
  BY <1>1, <1>3, LookupGet
<1>4. ASSUME NEW c \in Calls, GetCert(c) PROVE GetInv'
  BY <1>1, <1>4, DoGet, DummyCertGet, ForgetGet DEF GetCert
<1>5. ASSUME AllEnded \/ UNCHANGED vars PROVE GetInv'
  <2>1. UNCHANGED <<at, ca, cache, flight, call>>
    BY <1>5 DEF AllEnded, vars
  <2> QED
    BY <2>1 DEF GetInv, GetTypes, OwnCA, NeedsCA, Leads, Follows, Good, Verifies
<1> QED
  BY <1>2, <1>3, <1>4, <1>5 DEF CertNext

\* The invariant of GetCert holds in every behaviour of the certificate store.
THEOREM GetInvariance == CertSpec => [](StoreInv /\ GetInv)
<1>1. CertInit => StoreInv /\ GetInv
  BY InitInv, InitGet
<1>2. StoreInv /\ GetInv /\ [CertNext]_vars => StoreInv' /\ GetInv'
  BY NextInv, NextGet
<1> QED
  BY <1>1, <1>2, PTL DEF CertSpec

\* The type invariant, and with it the limit of the LRU cache, for every number of
\* handshakes and every size of the cache.
THEOREM CertTypeCorrect == CertSpec => []CertTypeOK
<1>1. StoreInv /\ GetInv => CertTypeOK
  BY DEF StoreInv, StoreTypes, GetInv, GetTypes, CertTypeOK
<1> QED
  BY <1>1, GetInvariance, PTL

\* Whatever GetCert returns, from the cache, its own flight or another call's, is
\* for the name asked for and verifies under the root of the process.
THEOREM HandedOutIsGood == CertSpec => []HandedOutVerifies
<1>1. GetInv => HandedOutVerifies
  BY DEF GetInv, Good, Verifies, HandedOutVerifies
<1> QED
  BY <1>1, GetInvariance, PTL
=============================================================================
