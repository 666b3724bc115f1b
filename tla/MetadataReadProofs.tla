------------------------- MODULE MetadataReadProofs -------------------------
(***************************************************************************)
(* meta_batch_get (src/server/src/unifycr_metadata.c, lines 377-458) on a *)
(* request manager thread that runs alone: what it returns with rc = 0 is *)
(* exactly the extents stored in the ranges of its requests.  Its range    *)
(* get puts one reply per server in the global bgrm, and its loop walks    *)
(* bgrm one reply at a time; the argument is that the bindings copied so  *)
(* far and those of the replies still ahead are all wanted, and, while no *)
(* reply has failed, make up all that is wanted.                           *)
(***************************************************************************)
EXTENDS Metadata, SequenceTheorems, FiniteSetTheorems, TLAPS

\* One request manager and nothing else: no fsync, set or get of the main
\* thread; the extent index holds extents only; every batch is a sequence
\* of requests whose probe keys fit into unifycr_keys (2 * req_cnt <=
\* MAX_META_PER_SEND, the bound meta_probe_overflow shows is needed).
ReaderAlone ==
  /\ FsyncClients = {} /\ SetClients = {} /\ AttrGets = {} /\ ExtGets = {}
  /\ \A r1, r2 \in ReadClients : r1 = r2
  /\ \A e \in InitExt : e.kind = "ext"
  /\ Requests \subseteq Seq([fid : Nat, off : Nat, len : Nat])
  /\ \A req \in Requests : 2 * Len(req) <= MaxMeta

\* The shapes the proof needs: the main thread never starts, the reply
\* chain is a sequence of replies whose ids are fresh (every get was
\* counted as a call, and a started meta_batch_get has not issued its get
\* yet), and the request manager's locals are functions of the clients.
RShape ==
  /\ mpc = "idle"
  /\ bgrm \in Seq(Reply)
  /\ gets \in Nat /\ calls \in 0 .. MaxCalls /\ gets <= calls
  /\ rpc \in [Clients -> {"idle", "index", "call", "loop"}]
  /\ rreq \in [Clients -> Requests \cup {<< >>}]
  /\ want \in [Clients -> SUBSET StoredEntry]
  /\ got \in [Clients -> SUBSET StoredEntry]
  /\ rc \in [Clients -> {0, UNIFYCR_ERROR_MDHIM}]
  /\ \A r \in ReadClients : rpc[r] \in {"index", "call"} => gets < calls

\* The inductive invariant.
RInv == RShape /\ ReadInv /\ GetSeesStore
\* No two replies of a chain carry the same binding.
ChainDisjoint(s) ==
  \A i, j \in 1 .. Len(s) : i # j => s[i].ents \cap s[j].ents = {}

\* What MsgMetaCount needs of request manager r: tot_num counts the
\* bindings copied so far, all wanted, and during the loop the replies
\* still ahead repeat none of them nor each other, as every server returns
\* the keys of its own shard.
CountOf(r) ==
  /\ IsFiniteSet(got[r]) /\ tot[r] = Cardinality(got[r]) /\ got[r] \subseteq want[r]
  /\ rpc[r] = "loop" =>
       /\ want[r] \subseteq InitExt
       /\ got[r] \cap ChainEnts(bgrm) = {}
       /\ ChainDisjoint(bgrm)

\* Inductive strengthening of MsgMetaCount.
CountInv == tot \in [Clients -> Nat] /\ \A r \in ReadClients : CountOf(r)

-----------------------------------------------------------------------------
(* Reply chains.                                                           *)

\* A chain that bgrm no longer reaches holds nothing and no error.
LEMMA ChainEmpty ==
  ChainEnts(<< >>) = {} /\ ChainOk(<< >>)
  BY DEF ChainEnts, ChainOk

\* Moving bgrm past its first reply (bgrmp = bgrmp->next, line 446).
LEMMA ChainTail ==
  ASSUME NEW s \in Seq(Reply), s # << >>
  PROVE  /\ Tail(s) \in Seq(Reply) /\ Head(s) \in Reply
         /\ ChainEnts(s) = Head(s).ents \cup ChainEnts(Tail(s))
         /\ ChainOk(s) <=> ~Head(s).err /\ ChainOk(Tail(s))
  <1>1. /\ Head(s) \in Reply /\ Tail(s) \in Seq(Reply)
        /\ Len(Tail(s)) = Len(s) - 1
        /\ \A i \in 1 .. Len(Tail(s)) : Tail(s)[i] = s[i + 1]
    BY HeadTailProperties
  <1>2. Len(s) \in Nat \ {0} /\ Head(s) = s[1]
    BY EmptySeq, LenProperties
  <1>3. ASSUME NEW i \in 2 .. Len(s)
        PROVE  i - 1 \in 1 .. Len(Tail(s)) /\ Tail(s)[i - 1] = s[i]
    <2>1. i - 1 \in 1 .. Len(Tail(s))
      BY <1>1, <1>2
    <2>2. QED
      BY <1>1, <2>1
  <1>4. ASSUME NEW j \in 1 .. Len(Tail(s))
        PROVE  j + 1 \in 1 .. Len(s) /\ Tail(s)[j] = s[j + 1]
    BY <1>1, <1>2
  <1>5. ChainEnts(s) = Head(s).ents \cup ChainEnts(Tail(s))
    <2>1. ASSUME NEW e \in ChainEnts(s) PROVE e \in Head(s).ents \cup ChainEnts(Tail(s))
      <3>1. PICK i \in 1 .. Len(s) : e \in s[i].ents
        BY <2>1 DEF ChainEnts
      <3>2. CASE i = 1
        BY <1>2, <3>1, <3>2
      <3>3. CASE i # 1
        <4>1. i \in 2 .. Len(s)
          BY <1>2, <3>3
        <4>2. QED
          BY <1>3, <3>1, <4>1 DEF ChainEnts
      <3>4. QED
        BY <3>2, <3>3
    <2>2. ASSUME NEW e \in Head(s).ents \cup ChainEnts(Tail(s)) PROVE e \in ChainEnts(s)
      <3>1. CASE e \in Head(s).ents
        BY <1>2, <3>1 DEF ChainEnts
      <3>2. CASE e \in ChainEnts(Tail(s))
        <4>1. PICK j \in 1 .. Len(Tail(s)) : e \in Tail(s)[j].ents
          BY <3>2 DEF ChainEnts
        <4>2. QED
          BY <1>4, <4>1 DEF ChainEnts
      <3>3. QED
        BY <2>2, <3>1, <3>2
    <2>3. QED
      BY <2>1, <2>2
  <1>6. ChainOk(s) <=> ~Head(s).err /\ ChainOk(Tail(s))
    <2>1. ASSUME ChainOk(s) PROVE ~Head(s).err /\ ChainOk(Tail(s))
      BY <1>2, <1>4, <2>1 DEF ChainOk
    <2>2. ASSUME ~Head(s).err, ChainOk(Tail(s)) PROVE ChainOk(s)
      <3>1. ASSUME NEW i \in 1 .. Len(s) PROVE ~s[i].err
        <4>1. CASE i = 1
          BY <1>2, <2>2, <4>1
        <4>2. CASE i # 1
          <5>1. i \in 2 .. Len(s)
            BY <1>2, <4>2
          <5>2. QED
            BY <1>3, <2>2, <5>1 DEF ChainOk
        <4>3. QED
          BY <4>1, <4>2
      <3>2. QED
        BY <3>1 DEF ChainOk
    <2>3. QED
      BY <2>1, <2>2
  <1>7. QED
    BY <1>1, <1>5, <1>6
-----------------------------------------------------------------------------
(* The range get.                                                          *)

\* The key pairs of meta_batch_get's mdhimBGet for req: the two probe keys
\* of every request.
ProbePairs(req) ==
  {<<Probe(req, 2 * i), Probe(req, 2 * i + 1)>> : i \in 0 .. Len(req) - 1}

\* Lines 403-407 read back the pairs lines 390-400 wrote: while the probe
\* keys of req fill the front of unifycr_keys and fit into it, the pairs
\* GetCall takes from it are the probe pairs of req.
LEMMA CallPairs ==
  ASSUME NEW req \in Seq([fid : Nat, off : Nat, len : Nat]),
         2 * Len(req) <= MaxMeta, NEW kk,
         \A j \in 0 .. 2 * Len(req) - 1 : kk[j] = Probe(req, j)
  PROVE  { <<kk[2 * i], kk[2 * i + 1]>> :
             i \in {i \in 0 .. Len(req) - 1 : 2 * i + 1 < MaxMeta} } = ProbePairs(req)
  <1>1. {i \in 0 .. Len(req) - 1 : 2 * i + 1 < MaxMeta} = 0 .. Len(req) - 1
    BY ConstAssumption
  <1>2. ASSUME NEW i \in 0 .. Len(req) - 1
        PROVE  /\ 2 * i \in 0 .. 2 * Len(req) - 1
               /\ 2 * i + 1 \in 0 .. 2 * Len(req) - 1
    OBVIOUS
  <1>3. \A i \in 0 .. Len(req) - 1 :
          <<kk[2 * i], kk[2 * i + 1]>> = <<Probe(req, 2 * i), Probe(req, 2 * i + 1)>>
    BY <1>2
  <1>4. QED
    BY <1>1, <1>3 DEF ProbePairs

\* What the range get of meta_batch_get returns over the extent index when
\* it holds the extents flushed before: a chain of replies whose bindings
\* are all wanted extents, and all of them when no reply is an error.
LEMMA RangeGetWanted ==
  ASSUME ReaderAlone, store[0] = InitExt,
         NEW req \in Requests, NEW failed, NEW g \in 0 .. MaxCalls
  PROVE  /\ RangeGet(0, ProbePairs(req), failed, g) \in Seq(Reply)
         /\ ChainEnts(RangeGet(0, ProbePairs(req), failed, g)) \subseteq Wanted(store[0], req)
         /\ ChainOk(RangeGet(0, ProbePairs(req), failed, g)) =>
              Wanted(store[0], req) \subseteq ChainEnts(RangeGet(0, ProbePairs(req), failed, g))
  <1> DEFINE R == RangeGet(0, ProbePairs(req), failed, g)
  <1>1. NumServers \in Nat \ {0} /\ InitExt \subseteq StoredEntry
    BY ConstAssumption, InputAssumption
  <1>2. \A i \in 1 .. NumServers : i - 1 \in Servers
    BY <1>1 DEF Servers
  <1>3. R \in [1 .. NumServers -> Reply]
    BY <1>1, <1>2 DEF RangeGet, Reply, ReplyId
  <1>4. R \in Seq(Reply) /\ Len(R) = NumServers
    BY <1>1, <1>3
  <1>5. ASSUME NEW e \in ChainEnts(R) PROVE e \in Wanted(store[0], req)
    <2>1. PICK i \in 1 .. Len(R) : e \in R[i].ents
      BY DEF ChainEnts
    <2>2. e \in store[0] /\ \E p \in ProbePairs(req) : InRange(0, e, p[1], p[2])
      BY <1>4, <2>1 DEF RangeGet
    <2>3. PICK k \in 0 .. Len(req) - 1 :
            InRange(0, e, Probe(req, 2 * k), Probe(req, 2 * k + 1))
      BY <2>2 DEF ProbePairs
    <2>4. k + 1 \in 1 .. Len(req) /\ 2 * ((k + 1) - 1) = 2 * k
      OBVIOUS
    <2>5. e.kind = "ext"
      BY <2>2 DEF ReaderAlone
    <2>6. QED
      BY <2>2, <2>3, <2>4, <2>5 DEF Wanted
  <1>6. ASSUME NEW i \in 1 .. NumServers
        PROVE  /\ R[i].err = (i - 1 \in failed)
               /\ i - 1 \notin failed =>
                    R[i].ents = {e \in store[0] : Shard(e) = i - 1 /\
                                   \E p \in ProbePairs(req) : InRange(0, e, p[1], p[2])}
    BY DEF RangeGet
  <1>7. ASSUME ChainOk(R), NEW e \in Wanted(store[0], req) PROVE e \in ChainEnts(R)
    <2>1. e \in StoredEntry /\ e \in store[0]
      BY <1>1 DEF Wanted
    <2>2. Shard(e) \in Servers
      BY <2>1, ConstAssumption DEF StoredEntry, Shard, Servers
    <2>3. Shard(e) + 1 \in 1 .. NumServers /\ (Shard(e) + 1) - 1 = Shard(e)
      BY <1>1, <2>2 DEF Servers
    <2>4. ~R[Shard(e) + 1].err
      BY <1>4, <1>7, <2>3 DEF ChainOk
    <2>5. Shard(e) \notin failed
      BY <1>6, <2>3, <2>4
    <2>6. PICK j \in 1 .. Len(req) :
            InRange(0, e, Probe(req, 2 * (j - 1)), Probe(req, 2 * (j - 1) + 1))
      BY DEF Wanted
    <2>7. <<Probe(req, 2 * (j - 1)), Probe(req, 2 * (j - 1) + 1)>> \in ProbePairs(req)
      <3>1. j - 1 \in 0 .. Len(req) - 1
        OBVIOUS
      <3>2. QED
        BY <3>1 DEF ProbePairs
    <2>8. \E p \in ProbePairs(req) : InRange(0, e, p[1], p[2])
      BY <2>6, <2>7
    <2>9. e \in R[Shard(e) + 1].ents
      BY <1>6, <2>1, <2>3, <2>5, <2>8
    <2>10. QED
      BY <1>4, <2>3, <2>9 DEF ChainEnts
  <1>8. QED
    BY <1>4, <1>5, <1>7
-----------------------------------------------------------------------------
(* Counting the bindings of meta_batch_get.                                *)

\* Moving bgrm past its first reply keeps the replies apart, and the first
\* one shares no binding with the rest.
LEMMA ChainTailDisjoint ==
  ASSUME NEW s \in Seq(Reply), s # << >>, ChainDisjoint(s)
  PROVE  /\ ChainDisjoint(Tail(s))
         /\ Head(s).ents \cap ChainEnts(Tail(s)) = {}
  <1>1. /\ Len(Tail(s)) = Len(s) - 1
        /\ \A i \in 1 .. Len(Tail(s)) : Tail(s)[i] = s[i + 1]
    BY HeadTailProperties
  <1>2. Len(s) \in Nat \ {0} /\ Head(s) = s[1]
    BY EmptySeq, LenProperties
  <1>3. ChainDisjoint(Tail(s))
    <2> SUFFICES ASSUME NEW i \in 1 .. Len(Tail(s)), NEW j \in 1 .. Len(Tail(s)), i # j
                 PROVE  Tail(s)[i].ents \cap Tail(s)[j].ents = {}
      BY DEF ChainDisjoint
    <2>1. i + 1 \in 1 .. Len(s) /\ j + 1 \in 1 .. Len(s) /\ i + 1 # j + 1
      BY <1>1, <1>2
    <2>2. QED
      BY <1>1, <2>1 DEF ChainDisjoint
  <1>4. Head(s).ents \cap ChainEnts(Tail(s)) = {}
    <2> SUFFICES ASSUME NEW j \in 1 .. Len(Tail(s)), NEW e \in Head(s).ents,
                        e \in Tail(s)[j].ents
                 PROVE  FALSE
      BY DEF ChainEnts
    <2>1. j + 1 \in 1 .. Len(s) /\ 1 \in 1 .. Len(s) /\ j + 1 # 1
      BY <1>1, <1>2
    <2>2. QED
      BY <1>1, <1>2, <2>1 DEF ChainDisjoint
  <1>5. QED
    BY <1>3, <1>4

\* Every server of a range get returns only the keys of its own shard, so
\* no two replies of the chain share a binding.
LEMMA RangeGetDisjoint ==
  ASSUME NEW idx, NEW pairs, NEW failed, NEW g, NEW S,
         RangeGet(idx, pairs, failed, g) \in Seq(S)
  PROVE  ChainDisjoint(RangeGet(idx, pairs, failed, g))
  <1> DEFINE R == RangeGet(idx, pairs, failed, g)
  <1>1. NumServers \in Nat /\ Len(R) = NumServers
    <2>1. DOMAIN R = 1 .. NumServers /\ NumServers \in Nat
      BY ConstAssumption DEF RangeGet
    <2>2. Len(R) \in Nat /\ DOMAIN R = 1 .. Len(R)
      BY LenProperties
    <2>3. QED
      BY <2>1, <2>2
  <1>2. ASSUME NEW i \in 1 .. NumServers, NEW e \in R[i].ents PROVE Shard(e) = i - 1
    BY DEF RangeGet
  <1>3. QED
    BY <1>1, <1>2 DEF ChainDisjoint
-----------------------------------------------------------------------------
(* The steps of meta_batch_get.                                            *)

\* With one request manager, what the invariant says of all of them it
\* says of the one that moved.
LEMMA OnlyReader ==
  ASSUME ReaderAlone, NEW r \in ReadClients, store'[0] = InitExt, ReaderInv(r)',
         rpc'[r] = "idle" /\ rc'[r] = 0 => got'[r] = want'[r]
  PROVE  ReadInv' /\ GetSeesStore'
  BY DEF ReaderAlone, ReadInv, GetSeesStore

\* Lines 390-400: the probe keys of the new batch fill the front of
\* unifycr_keys.
LEMMA FillStep ==
  ASSUME ReaderAlone, RInv, NEW r \in ReadClients, NEW req \in Requests, GetFill(r, req)
  PROVE  RInv'
  <1>1. r \in Clients /\ MaxMeta \in Nat
    BY ConstAssumption
  <1>2. RShape'
    <2>1. rpc[r] = "idle" /\ rpc'[r] = "index" /\ calls' = calls + 1 /\ calls < MaxCalls
      BY <1>1 DEF GetFill, MainIdle, RInv, RShape
    <2>2. \A r2 \in ReadClients : r2 = r
      BY DEF ReaderAlone
    <2>3. UNCHANGED <<mpc, bgrm, gets, want, got, rc>>
      BY DEF GetFill, mainVars
    <2>4. calls' \in 0 .. MaxCalls /\ gets' <= calls' /\ gets' < calls'
      BY <2>1, <2>3, ConstAssumption DEF RInv, RShape
    <2>5. rpc' \in [Clients -> {"idle", "index", "call", "loop"}]
      BY <1>1 DEF GetFill, RInv, RShape
    <2>6. rreq' \in [Clients -> Requests \cup {<< >>}]
      BY <1>1 DEF GetFill, RInv, RShape
    <2>7. QED
      BY <1>1, <2>2, <2>3, <2>4, <2>5, <2>6 DEF RInv, RShape
  <1>3. ReaderInv(r)'
    <2>1. rpc'[r] = "index" /\ rreq'[r] = req
      BY <1>1 DEF GetFill, RInv, RShape
    <2>2. 2 * Len(req) <= MaxMeta /\ Len(req) \in Nat
      BY DEF ReaderAlone
    <2>3. ASSUME NEW j \in 0 .. 2 * Len(req) - 1 PROVE keys'[j] = Probe(req, j)
      <3>1. j \in Slots /\ j < 2 * Len(req)
        BY <1>1, <2>2 DEF Slots
      <3>2. QED
        BY <3>1 DEF GetFill
    <2>4. QED
      BY <2>1, <2>3 DEF ReaderInv
  <1>4. store'[0] = InitExt /\ rpc'[r] = "index"
    BY <1>1 DEF GetFill, RInv, ReadInv, RShape
  <1>5. QED
    BY <1>2, <1>3, <1>4, OnlyReader DEF RInv

\* Line 402: index 0 is selected.
LEMMA IndexStep ==
  ASSUME ReaderAlone, RInv, NEW r \in ReadClients, GetIndex(r)
  PROVE  RInv'
  <1>1. r \in Clients
    BY ConstAssumption
  <1>2. rpc[r] = "index" /\ rpc'[r] = "call" /\ primaryIndex' = 0
    BY <1>1 DEF GetIndex, RInv, RShape
  <1>3. \A r2 \in ReadClients : r2 = r
    BY DEF ReaderAlone
  <1>4. RShape'
    BY <1>1, <1>2, <1>3 DEF GetIndex, RInv, RShape, mainVars
  <1>5. ReaderInv(r)'
    BY <1>2 DEF GetIndex, RInv, ReadInv, ReaderInv
  <1>6. store'[0] = InitExt
    BY DEF GetIndex, RInv, ReadInv
  <1>7. QED
    BY <1>2, <1>4, <1>5, <1>6, OnlyReader DEF RInv

\* Lines 403-407: the range get of the probe pairs puts a fresh reply
\* chain in bgrm; del_req_set and rc start empty and 0.
LEMMA CallStep ==
  ASSUME ReaderAlone, RInv, NEW r \in ReadClients, GetCall(r)
  PROVE  RInv'
  <1>1. r \in Clients
    BY ConstAssumption
  <1>2. rpc[r] = "call" /\ rreq[r] \in Requests /\ primaryIndex = 0
        /\ store[0] = InitExt /\ gets < calls
    BY DEF GetCall, RInv, ReadInv, ReaderInv, RShape
  <1>3. /\ rreq[r] \in Seq([fid : Nat, off : Nat, len : Nat])
        /\ 2 * Len(rreq[r]) <= MaxMeta
        /\ \A j \in 0 .. 2 * Len(rreq[r]) - 1 : keys[j] = Probe(rreq[r], j)
    BY <1>2 DEF ReaderAlone, RInv, ReadInv, ReaderInv
  <1>4. { <<keys[2 * i], keys[2 * i + 1]>> :
            i \in {i \in 0 .. Len(rreq[r]) - 1 : 2 * i + 1 < MaxMeta} }
          = ProbePairs(rreq[r])
    BY <1>3, CallPairs
  <1>5. gets + 1 \in 0 .. MaxCalls /\ gets' = gets + 1
    <2>1. gets' = gets + 1
      BY DEF GetCall
    <2>2. gets \in Nat /\ calls \in 0 .. MaxCalls
      BY DEF RInv, RShape
    <2>3. gets < calls
      BY <1>2
    <2>4. QED
      BY <2>1, <2>2, <2>3, ConstAssumption
  <1>6. PICK failed : bgrm' = RangeGet(0, ProbePairs(rreq[r]), failed, gets + 1)
    BY <1>2, <1>4 DEF GetCall
  <1>7. /\ bgrm' \in Seq(Reply)
        /\ ChainEnts(bgrm') \subseteq Wanted(store[0], rreq[r])
        /\ ChainOk(bgrm') => Wanted(store[0], rreq[r]) \subseteq ChainEnts(bgrm')
    BY <1>2, <1>5, <1>6, RangeGetWanted
  <1>8. /\ rpc'[r] = "loop" /\ rreq' = rreq
        /\ want'[r] = Wanted(store[0], rreq[r]) /\ got'[r] = {} /\ rc'[r] = 0
    BY <1>1 DEF GetCall, RInv, RShape
  <1>9. Wanted(store[0], rreq[r]) \subseteq StoredEntry
    BY <1>2, InputAssumption DEF Wanted
  <1>10. \A r2 \in ReadClients : r2 = r
    BY DEF ReaderAlone
  <1>11. RShape'
    <2>1. UNCHANGED <<mpc, calls>>
      BY DEF GetCall, mainVars
    <2>2. /\ rpc' \in [Clients -> {"idle", "index", "call", "loop"}]
          /\ want' \in [Clients -> SUBSET StoredEntry]
          /\ got' \in [Clients -> SUBSET StoredEntry]
          /\ rc' \in [Clients -> {0, UNIFYCR_ERROR_MDHIM}]
      BY <1>1, <1>9 DEF GetCall, RInv, RShape
    <2>3. QED
      BY <1>2, <1>5, <1>7, <1>8, <1>10, <2>1, <2>2 DEF RInv, RShape
  <1>12. ReaderInv(r)'
    BY <1>2, <1>7, <1>8 DEF ReaderInv
  <1>13. store'[0] = InitExt
    BY <1>2 DEF GetCall
  <1>14. QED
    BY <1>8, <1>11, <1>12, <1>13, OnlyReader DEF RInv

\* Lines 412-450: the bindings of the reply bgrm points to go to
\* del_req_set, an error reply sets rc, and bgrm moves on.
LEMMA LoopStep ==
  ASSUME ReaderAlone, RInv, NEW r \in ReadClients, GetLoopStep(r)
  PROVE  RInv'
  <1>1. r \in Clients
    BY ConstAssumption
  <1>2. rpc[r] = "loop" /\ bgrm \in Seq(Reply) /\ bgrm # << >>
    BY DEF GetLoopStep, RInv, RShape
  <1>3. /\ Tail(bgrm) \in Seq(Reply) /\ Head(bgrm) \in Reply
        /\ ChainEnts(bgrm) = Head(bgrm).ents \cup ChainEnts(Tail(bgrm))
        /\ ChainOk(bgrm) <=> ~Head(bgrm).err /\ ChainOk(Tail(bgrm))
    BY <1>2, ChainTail
  <1>4. /\ bgrm' = Tail(bgrm) /\ rpc' = rpc /\ want' = want /\ rreq' = rreq
        /\ got'[r] = got[r] \cup Head(bgrm).ents
        /\ rc'[r] = IF Head(bgrm).err THEN UNIFYCR_ERROR_MDHIM ELSE rc[r]
    BY <1>1 DEF GetLoopStep, RInv, RShape
  <1>5. /\ rreq[r] \in Requests
        /\ got[r] \cup ChainEnts(bgrm) \subseteq want[r]
        /\ rc[r] = 0 /\ ChainOk(bgrm) => want[r] \subseteq got[r] \cup ChainEnts(bgrm)
    BY <1>2 DEF RInv, ReadInv, ReaderInv
  <1>6. got'[r] \cup ChainEnts(bgrm') = got[r] \cup ChainEnts(bgrm)
    BY <1>3, <1>4
  <1>7. rc'[r] = 0 /\ ChainOk(bgrm') => rc[r] = 0 /\ ChainOk(bgrm)
    BY <1>3, <1>4 DEF UNIFYCR_ERROR_MDHIM
  <1>8. ReaderInv(r)'
    BY <1>2, <1>4, <1>5, <1>6, <1>7 DEF ReaderInv
  <1>9. RShape'
    <2>1. UNCHANGED <<mpc, gets, calls, rreq, want>>
      BY DEF GetLoopStep, mainVars
    <2>2. /\ got' \in [Clients -> SUBSET StoredEntry]
          /\ rc' \in [Clients -> {0, UNIFYCR_ERROR_MDHIM}]
      BY <1>1, <1>3 DEF GetLoopStep, RInv, RShape, Reply
    <2>3. QED
      BY <1>3, <1>4, <2>1, <2>2 DEF RInv, RShape
  <1>10. store'[0] = InitExt
    BY DEF GetLoopStep, RInv, ReadInv
  <1>11. QED
    BY <1>2, <1>4, <1>8, <1>9, <1>10, OnlyReader DEF RInv

\* Lines 451-456: bgrm is NULL and the loop ends; what it returns with
\* rc = 0 is everything it wanted.
LEMMA EndStep ==
  ASSUME ReaderAlone, RInv, NEW r \in ReadClients, GetLoopEnd(r)
  PROVE  RInv'
  <1>1. r \in Clients
    BY ConstAssumption
  <1>2. rpc[r] = "loop" /\ bgrm = << >> /\ rpc'[r] = "idle"
    BY <1>1 DEF GetLoopEnd, RInv, RShape
  <1>3. UNCHANGED <<bgrm, gets, calls, store, mpc, rreq, want, got, rc>>
    BY DEF GetLoopEnd, shared, mainVars
  <1>4. got[r] \subseteq want[r] /\ (rc[r] = 0 => want[r] \subseteq got[r])
    BY <1>2, ChainEmpty DEF RInv, ReadInv, ReaderInv
  <1>5. ReaderInv(r)'
    BY <1>2 DEF ReaderInv
  <1>6. \A r2 \in ReadClients : r2 = r
    BY DEF ReaderAlone
  <1>7. RShape'
    <2>1. rpc' \in [Clients -> {"idle", "index", "call", "loop"}]
      BY <1>1 DEF GetLoopEnd, RInv, RShape
    <2>2. QED
      BY <1>2, <1>3, <1>6, <2>1 DEF RInv, RShape
  <1>8. store'[0] = InitExt
    BY <1>3 DEF RInv, ReadInv
  <1>9. rpc'[r] = "idle" /\ rc'[r] = 0 => got'[r] = want'[r]
    BY <1>3, <1>4
  <1>10. QED
    BY <1>5, <1>7, <1>8, <1>9, OnlyReader DEF RInv
-----------------------------------------------------------------------------
(* The count of meta_batch_get's bindings, step by step.                   *)

\* With one request manager, what CountInv says of all of them it says of
\* the one that moved.
LEMMA OnlyReaderCount ==
  ASSUME ReaderAlone, NEW r \in ReadClients, tot' \in [Clients -> Nat], CountOf(r)'
  PROVE  CountInv'
  BY DEF ReaderAlone, CountInv

\* A step of r outside its loop that copies nothing and leaves r outside
\* the loop keeps the count.
LEMMA NoCopyCount ==
  ASSUME ReaderAlone, CountInv, NEW r \in ReadClients,
         UNCHANGED <<tot, got, want>>, rpc'[r] # "loop"
  PROVE  CountInv'
  <1>1. CountOf(r)
    BY DEF CountInv
  <1>2. CountOf(r)'
    BY <1>1 DEF CountOf
  <1>3. QED
    BY <1>2, OnlyReaderCount DEF CountInv

\* Lines 390-400 write the probe keys and copy nothing.
LEMMA FillCount ==
  ASSUME ReaderAlone, RInv, CountInv, NEW r \in ReadClients, NEW req \in Requests,
         GetFill(r, req)
  PROVE  CountInv'
  <1>1. r \in Clients
    BY ConstAssumption
  <1>2. UNCHANGED <<tot, got, want>> /\ rpc'[r] = "index"
    BY <1>1 DEF GetFill, RInv, RShape
  <1>3. QED
    BY <1>2, NoCopyCount

\* Line 402 copies nothing.
LEMMA IndexCount ==
  ASSUME ReaderAlone, RInv, CountInv, NEW r \in ReadClients, GetIndex(r)
  PROVE  CountInv'
  <1>1. r \in Clients
    BY ConstAssumption
  <1>2. UNCHANGED <<tot, got, want>> /\ rpc'[r] = "call"
    BY <1>1 DEF GetIndex, RInv, RShape
  <1>3. QED
    BY <1>2, NoCopyCount

\* Lines 403-407: tot_num starts at 0 over a fresh chain of replies.
LEMMA CallCount ==
  ASSUME ReaderAlone, RInv, CountInv, NEW r \in ReadClients, GetCall(r)
  PROVE  CountInv'
  <1>1. r \in Clients
    BY ConstAssumption
  <1>2. /\ tot' = [tot EXCEPT ![r] = 0] /\ rpc'[r] = "loop"
        /\ got'[r] = {} /\ want'[r] = Wanted(store[0], rreq[r])
    BY <1>1 DEF GetCall, CountInv, RInv, RShape
  <1>3. store[0] = InitExt
    BY DEF RInv, ReadInv
  <1>4. Wanted(store[0], rreq[r]) \subseteq InitExt
    BY <1>3 DEF Wanted
  <1>5. bgrm' \in Seq(Reply)
    BY CallStep DEF RInv, RShape
  <1>6. PICK idx, pairs, failed : bgrm' = RangeGet(idx, pairs, failed, gets + 1)
    BY DEF GetCall
  <1>7. ChainDisjoint(bgrm')
    BY <1>5, <1>6, RangeGetDisjoint
  <1>8. tot' \in [Clients -> Nat] /\ tot'[r] = 0
    BY <1>1, <1>2 DEF CountInv
  <1>9. /\ IsFiniteSet(got'[r]) /\ tot'[r] = Cardinality(got'[r])
        /\ got'[r] \subseteq want'[r]
        /\ want'[r] \subseteq InitExt
        /\ got'[r] \cap ChainEnts(bgrm') = {}
    BY <1>2, <1>4, <1>8, FS_EmptySet
  <1>10. QED
    BY <1>2, <1>7, <1>8, <1>9, OnlyReaderCount DEF CountOf

\* Lines 412-450: one reply's bindings go to msg_meta[tot_num ..]; none of
\* them was copied before, so tot_num grows by exactly as many as got does.
LEMMA LoopCount ==
  ASSUME ReaderAlone, IsFiniteSet(InitExt), RInv, CountInv, NEW r \in ReadClients,
         GetLoopStep(r)
  PROVE  CountInv'
  <1>1. r \in Clients
    BY ConstAssumption
  <1>2. rpc[r] = "loop" /\ bgrm \in Seq(Reply) /\ bgrm # << >>
    BY DEF GetLoopStep, RInv, RShape
  <1>3. /\ Tail(bgrm) \in Seq(Reply) /\ Head(bgrm) \in Reply
        /\ ChainEnts(bgrm) = Head(bgrm).ents \cup ChainEnts(Tail(bgrm))
    BY <1>2, ChainTail
  <1>4. /\ want[r] \subseteq InitExt
        /\ tot[r] = Cardinality(got[r])
        /\ got[r] \cap ChainEnts(bgrm) = {}
        /\ ChainDisjoint(bgrm)
        /\ got[r] \cup ChainEnts(bgrm) \subseteq want[r]
        /\ tot \in [Clients -> Nat]
    BY <1>2 DEF CountInv, CountOf, RInv, ReadInv, ReaderInv
  <1>5. ChainDisjoint(Tail(bgrm)) /\ Head(bgrm).ents \cap ChainEnts(Tail(bgrm)) = {}
    BY <1>2, <1>4, ChainTailDisjoint
  <1>6. /\ got[r] \cup Head(bgrm).ents \subseteq want[r]
        /\ IsFiniteSet(got[r]) /\ IsFiniteSet(Head(bgrm).ents)
        /\ IsFiniteSet(got[r] \cup Head(bgrm).ents)
    <2>1. got[r] \cup Head(bgrm).ents \subseteq want[r]
      BY <1>3, <1>4
    <2>2. IsFiniteSet(want[r])
      BY <1>4, FS_Subset
    <2>3. IsFiniteSet(got[r] \cup Head(bgrm).ents)
      BY <2>1, <2>2, FS_Subset
    <2>4. IsFiniteSet(got[r]) /\ IsFiniteSet(Head(bgrm).ents)
      BY <2>3, FS_Subset
    <2>5. QED
      BY <2>1, <2>3, <2>4
  <1>7. Cardinality(got[r] \cup Head(bgrm).ents)
          = Cardinality(got[r]) + Cardinality(Head(bgrm).ents)
    <2>1. got[r] \cap Head(bgrm).ents = {}
      BY <1>3, <1>4
    <2>2. Cardinality(got[r] \cup Head(bgrm).ents)
            = Cardinality(got[r]) + Cardinality(Head(bgrm).ents)
              - Cardinality(got[r] \cap Head(bgrm).ents)
      BY <1>6, FS_Union
    <2>3. Cardinality(got[r]) \in Nat /\ Cardinality(Head(bgrm).ents) \in Nat
      BY <1>6, FS_CardinalityType
    <2>4. Cardinality(got[r] \cap Head(bgrm).ents) = 0
      BY <2>1, FS_EmptySet
    <2>5. QED
      BY <2>2, <2>3, <2>4
  <1>8. /\ tot' = [tot EXCEPT ![r] = tot[r] + Cardinality(Head(bgrm).ents)]
        /\ got'[r] = got[r] \cup Head(bgrm).ents
        /\ bgrm' = Tail(bgrm) /\ rpc' = rpc /\ want' = want
    BY <1>1, <1>4 DEF GetLoopStep, mainVars, RInv, RShape
  <1>9. tot'[r] = Cardinality(got'[r]) /\ tot' \in [Clients -> Nat]
    <2>1. Cardinality(Head(bgrm).ents) \in Nat
      BY <1>6, FS_CardinalityType
    <2>2. QED
      BY <1>1, <1>4, <1>7, <1>8, <2>1
  <1>10. got'[r] \cap ChainEnts(bgrm') = {}
    BY <1>3, <1>4, <1>5, <1>8
  <1>11. CountOf(r)'
    BY <1>2, <1>4, <1>5, <1>6, <1>8, <1>9, <1>10 DEF CountOf
  <1>12. QED
    BY <1>9, <1>11, OnlyReaderCount

\* Lines 451-456: del_req_set->num = tot_num; nothing is copied.
LEMMA EndCount ==
  ASSUME ReaderAlone, RInv, CountInv, NEW r \in ReadClients, GetLoopEnd(r)
  PROVE  CountInv'
  <1>1. r \in Clients
    BY ConstAssumption
  <1>2. UNCHANGED <<tot, got, want>> /\ rpc'[r] = "idle"
    BY <1>1 DEF GetLoopEnd, shared, RInv, RShape
  <1>3. QED
    BY <1>2, NoCopyCount

-----------------------------------------------------------------------------
(* The invariant and the theorem.                                          *)

\* Before any call the reply chain is empty and nothing is read.
LEMMA ReadInit ==
  ASSUME Init PROVE RInv
  <1>1. RShape
    BY ConstAssumption DEF Init, RShape
  <1>2. ReadInv
    BY ConstAssumption DEF Init, ReadInv, ReaderInv
  <1>3. GetSeesStore
    BY ConstAssumption DEF Init, GetSeesStore
  <1>4. QED
    BY <1>1, <1>2, <1>3 DEF RInv

\* While the main thread is idle and serves nobody, every step of the
\* delegator is one of meta_batch_get's or a stutter.
LEMMA MainQuiet ==
  ASSUME ReaderAlone, RInv, Next
  PROVE  \E r \in ReadClients :
           \/ \E req \in Requests : GetFill(r, req)
           \/ GetIndex(r) \/ GetCall(r) \/ GetLoopStep(r) \/ GetLoopEnd(r)
  <1>1. mpc = "idle"
    BY DEF RInv, RShape
  <1>2. FsyncClients = {} /\ SetClients = {} /\ AttrGets = {} /\ ExtGets = {}
    BY DEF ReaderAlone
  <1>3. ~FsyncPut1 /\ ~FsyncAttrFill /\ ~FsyncPut2 /\ ~SetPut
    BY <1>1 DEF FsyncPut1, FsyncAttrFill, FsyncPut2, SetPut
  <1>4. ~GetAttrCall /\ ~GetAttrRead
    BY <1>1 DEF GetAttrCall, GetAttrRead
  <1>5. ~GetExtCall /\ ~GetExtStep /\ ~GetExtEnd
    BY <1>1 DEF GetExtCall, GetExtStep, GetExtEnd
  <1>6. QED
    BY <1>2, <1>3, <1>4, <1>5 DEF Next

\* Every step keeps the inductive invariant.
THEOREM ReadStep ==
  ASSUME ReaderAlone, RInv, [Next]_vars
  PROVE  RInv'
  <1>1. CASE Next
    <2>1. PICK r \in ReadClients :
            \/ \E req \in Requests : GetFill(r, req)
            \/ GetIndex(r) \/ GetCall(r) \/ GetLoopStep(r) \/ GetLoopEnd(r)
      BY <1>1, MainQuiet
    <2>2. QED
      BY <2>1, FillStep, IndexStep, CallStep, LoopStep, EndStep
  <1>2. CASE UNCHANGED vars
    BY <1>2 DEF vars, shared, mainVars, rmVars, RInv, RShape, ReadInv, ReaderInv,
                GetSeesStore
  <1>3. QED
    BY <1>1, <1>2

\* meta_batch_get, on a request manager thread that runs alone over an
\* extent index of extents only, and whose batches fit into unifycr_keys:
\* whenever it has returned rc = 0, the bindings it put in del_req_set are
\* exactly the extents stored in the ranges of its requests; and between
\* its steps ReadInv holds of it.
THEOREM ReadCorrect ==
  ASSUME ReaderAlone
  PROVE  Spec => [](GetSeesStore /\ ReadInv)
  <1>1. Init => RInv
    BY ReadInit
  <1>2. RInv /\ [Next]_vars => RInv'
    BY ReadStep
  <1>3. RInv => GetSeesStore /\ ReadInv
    BY DEF RInv
  <1>4. QED
    BY <1>1, <1>2, <1>3, PTL DEF Spec

\* Every step keeps the count of the bindings copied.
THEOREM CountStep ==
  ASSUME ReaderAlone, IsFiniteSet(InitExt), RInv, CountInv, [Next]_vars
  PROVE  CountInv'
  <1>1. CASE Next
    <2>1. PICK r \in ReadClients :
            \/ \E req \in Requests : GetFill(r, req)
            \/ GetIndex(r) \/ GetCall(r) \/ GetLoopStep(r) \/ GetLoopEnd(r)
      BY <1>1, MainQuiet
    <2>2. QED
      BY <2>1, FillCount, IndexCount, CallCount, LoopCount, EndCount
  <1>2. CASE UNCHANGED vars
    BY <1>2 DEF vars, shared, mainVars, rmVars, CountInv, CountOf, ChainEnts,
                ChainDisjoint
  <1>3. QED
    BY <1>1, <1>2

\* On a request manager that runs alone over finitely many stored extents,
\* tot_num, the next slot of del_req_set->msg_meta that meta_batch_get
\* writes, is always the number of distinct extents it has copied, all in
\* the ranges of its requests.  So msg_meta overflows (line 422) exactly
\* when those ranges hold more than MAX_META_PER_SEND stored extents, which
\* the code does not check; it does not overflow by counting a binding twice.
THEOREM ReadCountExact ==
  ASSUME ReaderAlone, IsFiniteSet(InitExt)
  PROVE  Spec => []MsgMetaCount
  <1>1. Init => RInv /\ CountInv
    <2> SUFFICES ASSUME Init PROVE RInv /\ CountInv
      OBVIOUS
    <2>1. /\ tot \in [Clients -> Nat]
          /\ \A r \in ReadClients : tot[r] = 0 /\ got[r] = {} /\ want[r] = {}
                                    /\ rpc[r] = "idle"
      BY ConstAssumption DEF Init
    <2>2. CountInv
      BY <2>1, FS_EmptySet DEF CountInv, CountOf
    <2>3. QED
      BY <2>2, ReadInit
  <1>2. RInv /\ CountInv /\ [Next]_vars => (RInv /\ CountInv)'
    BY ReadStep, CountStep
  <1>3. CountInv => MsgMetaCount
    BY DEF CountInv, CountOf, MsgMetaCount
  <1>4. QED
    BY <1>1, <1>2, <1>3, PTL DEF Spec
=============================================================================
