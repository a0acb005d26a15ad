---------------------------- MODULE AdminNonceProofs ----------------------------
(***************************************************************************)
(* Replay protection and succession of administrators, for every set of    *)
(* accounts and every number of calls.  The nonce order needs that a       *)
(* counter is the number of calls that ran (Counts); the other two need    *)
(* that the stored administrator is the last of the reigns (Throne) and    *)
(* that whoever was replaced could sign (Signed).                          *)
(***************************************************************************)
EXTENDS AdminNonce, TLAPS

Counts ==
  \A s \in Accounts, d \in Domains : nonce[s][d] = Len(ran[s][d])

Throne ==
  /\ admin = None => reigns = << >>
  /\ admin # None => Len(reigns) > 0

Signed == \A i \in DOMAIN reigns : i < Len(reigns) => reigns[i] \in Accounts

AInv ==
  /\ TypeOK /\ Counts /\ Throne /\ Signed
  /\ NoncesInOrder /\ ActedInOffice /\ ReignsEndOnce

\* The invariant holds before initialisation.
LEMMA AInit == Init => AInv
<1> SUFFICES ASSUME Init PROVE AInv
  OBVIOUS
<1>1. TypeOK
  <2>1. nonce \in [Accounts -> [Domains -> 0 .. U64_MAX]]
    BY AdminAssumption DEF Init, AdminAssumption
  <2>2. ran \in [Accounts -> [Domains -> Seq(Entry)]]
    BY DEF Init
  <2>3. reigns \in Seq(Accounts \cup {Contract})
    BY DEF Init
  <2>4. stopped \in BOOLEAN
    BY DEF Init
  <2> QED BY <2>1, <2>2, <2>3, <2>4 DEF Init, TypeOK
<1>6. Throne
  BY DEF Init, Throne
<1>2. reigns = << >> /\ DOMAIN reigns = {}
  BY DEF Init
<1>3. \A s \in Accounts, d \in Domains :
        ran[s][d] = << >> /\ DOMAIN ran[s][d] = {} /\ nonce[s][d] = 0
  BY DEF Init
<1>4. Counts /\ NoncesInOrder /\ ActedInOffice
  BY <1>3 DEF Counts, NoncesInOrder, ActedInOffice
<1>5. Signed /\ ReignsEndOnce
  BY <1>2, <1>3 DEF Signed, ReignsEndOnce, Domains
<1> QED
  BY <1>1, <1>4, <1>5, <1>6 DEF AInv

-------------------------------------------------------------------------------
\* What consuming a nonce does to the counters and to the history.
Consumed(s, d) ==
  LET m == Len(ran[s][d]) IN
  /\ nonce'[s][d] = nonce[s][d] + 1
  /\ Len(ran'[s][d]) = m + 1
  /\ DOMAIN ran'[s][d] = 1 .. (m + 1) /\ DOMAIN ran[s][d] = 1 .. m
  /\ ran'[s][d][m + 1] = [nonce |-> m, reign |-> Len(reigns)]
  /\ \A k \in 1 .. m : ran'[s][d][k] = ran[s][d][k]
  /\ \A t \in Accounts, e \in Domains :
       t # s \/ e # d => ran'[t][e] = ran[t][e] /\ nonce'[t][e] = nonce[t][e]

\* A nonce that is accepted is the expected one and extends what ran.
LEMMA ConsumeStep ==
  ASSUME AInv, NEW s \in Accounts, NEW d \in Domains, NEW n \in Nat,
         CheckAndAdvance(s, d, n)
  PROVE  /\ Consumed(s, d)
         /\ nonce' \in [Accounts -> [Domains -> 0 .. U64_MAX]]
         /\ ran' \in [Accounts -> [Domains -> Seq(Entry)]]
<1> DEFINE m == Len(ran[s][d])
           rec == [nonce |-> n, reign |-> Len(reigns)]
<1>1. /\ ran \in [Accounts -> [Domains -> Seq(Entry)]]
      /\ nonce \in [Accounts -> [Domains -> 0 .. U64_MAX]] /\ U64_MAX \in Nat
      /\ reigns \in Seq(Accounts \cup {Contract})
  BY AdminAssumption DEF AInv, TypeOK, AdminAssumption
<1>2. /\ n = nonce[s][d] /\ n < U64_MAX /\ n = m
      /\ nonce' = [nonce EXCEPT ![s][d] = @ + 1]
      /\ ran' = [ran EXCEPT ![s][d] = Append(@, rec)]
  BY DEF CheckAndAdvance, AInv, Counts
<1>3. rec \in Entry
  BY <1>1 DEF Entry
<1> HIDE DEF rec
<1>4. ran[s][d] \in Seq(Entry) /\ Append(ran[s][d], rec) \in Seq(Entry)
  BY <1>1, <1>3
<1>5. /\ ran'[s][d] = Append(ran[s][d], rec)
      /\ \A t \in Accounts, e \in Domains : t # s \/ e # d => ran'[t][e] = ran[t][e]
  BY <1>1, <1>2
<1>6. ran' \in [Accounts -> [Domains -> Seq(Entry)]]
  BY <1>1, <1>2, <1>4
<1>7. nonce[s][d] + 1 \in 0 .. U64_MAX
  BY <1>1, <1>2
<1>8. nonce' \in [Accounts -> [Domains -> 0 .. U64_MAX]]
  BY <1>1, <1>2, <1>7
<1>9. /\ nonce'[s][d] = nonce[s][d] + 1
      /\ \A t \in Accounts, e \in Domains : t # s \/ e # d => nonce'[t][e] = nonce[t][e]
  BY <1>1, <1>2
<1>10. /\ m \in Nat /\ Len(ran'[s][d]) = m + 1
       /\ DOMAIN ran'[s][d] = 1 .. (m + 1) /\ DOMAIN ran[s][d] = 1 .. m
       /\ ran'[s][d][m + 1] = rec
       /\ \A k \in 1 .. m : ran'[s][d][k] = ran[s][d][k]
  BY <1>3, <1>4, <1>5
<1> QED
  BY <1>2, <1>5, <1>6, <1>8, <1>9, <1>10 DEF Consumed, rec

\* Counters, order and office survive a consumed nonce of the administrator.
LEMMA ConsumeKeeps ==
  ASSUME AInv, NEW s \in Accounts, NEW d \in Domains, s = admin, Consumed(s, d),
         DOMAIN reigns \subseteq DOMAIN reigns',
         \A i \in DOMAIN reigns : reigns'[i] = reigns[i]
  PROVE  Counts' /\ NoncesInOrder' /\ ActedInOffice'
<1> DEFINE m == Len(ran[s][d]) L == Len(reigns)
<1>1. /\ m \in Nat /\ L \in Nat \ {0} /\ L \in DOMAIN reigns /\ reigns[L] = s
      /\ nonce[s][d] = m /\ DOMAIN reigns = 1 .. L
  <2>1. reigns \in Seq(Accounts \cup {Contract}) /\ Len(reigns) > 0
    BY AdminAssumption DEF AInv, TypeOK, Throne, AdminAssumption
  <2>2. L \in Nat \ {0} /\ DOMAIN reigns = 1 .. L /\ L \in DOMAIN reigns
    BY <2>1
  <2>3. reigns # << >>
    BY <2>2
  <2>4. ran[s][d] \in Seq(Entry)
    BY DEF AInv, TypeOK
  <2>5. m \in Nat /\ nonce[s][d] = m
    BY <2>4 DEF AInv, Counts
  <2> QED BY <2>2, <2>3, <2>5 DEF AInv, ReignsEndOnce
<1>2. /\ nonce'[s][d] = m + 1 /\ Len(ran'[s][d]) = m + 1
      /\ DOMAIN ran'[s][d] = 1 .. (m + 1) /\ DOMAIN ran[s][d] = 1 .. m
      /\ ran'[s][d][m + 1].nonce = m /\ ran'[s][d][m + 1].reign = L
      /\ \A k \in 1 .. m : ran'[s][d][k] = ran[s][d][k]
  BY <1>1 DEF Consumed
<1>3. \A t \in Accounts, e \in Domains :
        t # s \/ e # d => ran'[t][e] = ran[t][e] /\ nonce'[t][e] = nonce[t][e]
  BY DEF Consumed
<1> HIDE DEF m, L
<1>4. ASSUME NEW t \in Accounts, NEW e \in Domains
      PROVE  nonce'[t][e] = Len(ran'[t][e])
  BY <1>2, <1>3 DEF AInv, Counts
<1>5. ASSUME NEW t \in Accounts, NEW e \in Domains, NEW k \in DOMAIN ran'[t][e]
      PROVE  ran'[t][e][k].nonce = k - 1
  <2>1. CASE t # s \/ e # d
    BY <1>3, <1>5, <2>1 DEF AInv, NoncesInOrder
  <2>2. CASE t = s /\ e = d
    <3>1. k = m + 1 \/ k \in 1 .. m
      BY <1>1, <1>2, <1>5, <2>2
    <3>2. \A j \in 1 .. m : ran[s][d][j].nonce = j - 1
      BY <1>2 DEF AInv, NoncesInOrder
    <3>3. \A j \in 1 .. m : ran'[s][d][j].nonce = j - 1
      BY <1>2, <3>2
    <3>4. ran'[s][d][m + 1].nonce = (m + 1) - 1
      BY <1>1, <1>2
    <3> QED BY <2>2, <3>1, <3>3, <3>4
  <2> QED BY <2>1, <2>2
<1>6. ASSUME NEW t \in Accounts, NEW e \in Domains, NEW k \in DOMAIN ran'[t][e]
      PROVE  /\ ran'[t][e][k].reign \in DOMAIN reigns'
             /\ reigns'[ran'[t][e][k].reign] = t
             /\ \A j \in 1 .. k : ran'[t][e][j].reign <= ran'[t][e][k].reign
  <2>1. CASE t # s \/ e # d
    <3>1. ran'[t][e] = ran[t][e] /\ k \in DOMAIN ran[t][e]
      BY <1>3, <1>6, <2>1
    <3>2. /\ ran[t][e][k].reign \in DOMAIN reigns /\ reigns[ran[t][e][k].reign] = t
          /\ \A j \in 1 .. k : ran[t][e][j].reign <= ran[t][e][k].reign
      BY <3>1 DEF AInv, ActedInOffice
    <3> QED BY <3>1, <3>2
  <2>2. CASE t = s /\ e = d /\ k \in 1 .. m
    <3>1. /\ ran[s][d][k].reign \in DOMAIN reigns /\ reigns[ran[s][d][k].reign] = s
          /\ \A j \in 1 .. k : ran[s][d][j].reign <= ran[s][d][k].reign
      <4>1. k \in DOMAIN ran[s][d]
        BY <1>2, <2>2
      <4> QED BY <4>1 DEF AInv, ActedInOffice
    <3>2. \A j \in 1 .. k : ran'[s][d][j] = ran[s][d][j]
      BY <1>1, <1>2, <2>2
    <3>3. ran'[s][d][k] = ran[s][d][k]
      BY <1>2, <2>2
    <3>4. \A j \in 1 .. k : ran'[s][d][j].reign <= ran'[s][d][k].reign
      BY <3>1, <3>2, <3>3
    <3>5. /\ ran'[s][d][k].reign \in DOMAIN reigns'
          /\ reigns'[ran'[s][d][k].reign] = s
      BY <3>1, <3>3
    <3> QED BY <2>2, <3>4, <3>5
  <2>3. CASE t = s /\ e = d /\ k = m + 1
    <3>1. \A j \in 1 .. m : ran[s][d][j].reign \in 1 .. L
      BY <1>1, <1>2 DEF AInv, ActedInOffice
    <3>2. ASSUME NEW j \in 1 .. m
          PROVE  ran'[s][d][j].reign <= L
      <4>1. ran'[s][d][j] = ran[s][d][j]
        BY <1>2
      <4>2. ran[s][d][j].reign \in 1 .. L
        BY <3>1
      <4> QED BY <1>1, <4>1, <4>2
    <3>3. \A j \in 1 .. (m + 1) : j \in 1 .. m \/ j = m + 1
      BY <1>1
    <3>4. ran'[s][d][k].reign = L /\ L \in DOMAIN reigns' /\ reigns'[L] = s
      BY <1>1, <1>2, <2>3
    <3>5. \A j \in 1 .. k : ran'[s][d][j].reign <= L
      BY <1>1, <1>2, <2>3, <3>2, <3>3
    <3> QED BY <2>3, <3>4, <3>5
  <2>4. (t = s /\ e = d) => k \in 1 .. m \/ k = m + 1
    BY <1>1, <1>2, <1>6
  <2> QED BY <2>1, <2>2, <2>3, <2>4
<1>7. Counts'
  BY <1>4 DEF Counts
<1>8. NoncesInOrder'
  BY <1>5 DEF NoncesInOrder
<1>9. ActedInOffice'
  BY <1>6 DEF ActedInOffice
<1> QED
  BY <1>7, <1>8, <1>9

\* A batch charge by the administrator keeps the invariant.
LEMMA BatchKeeps ==
  ASSUME AInv, NEW s \in Accounts, NEW n \in Nat, BatchCharge(s, n)
  PROVE  AInv'
<1>1. /\ CheckAndAdvance(s, "batch", n) /\ "batch" \in Domains /\ s = admin
      /\ admin' = admin /\ stopped' = stopped /\ reigns' = reigns
  BY DEF BatchCharge, RequireAdminAuth, Domains
<1>2. /\ Consumed(s, "batch")
      /\ nonce' \in [Accounts -> [Domains -> 0 .. U64_MAX]]
      /\ ran' \in [Accounts -> [Domains -> Seq(Entry)]]
  BY <1>1, ConsumeStep
<1>3. TypeOK' /\ Throne' /\ Signed'
  BY <1>1, <1>2 DEF AInv, TypeOK, Throne, Signed
<1>4. Counts' /\ NoncesInOrder' /\ ActedInOffice'
  BY <1>1, <1>2, ConsumeKeeps
<1>5. \A t \in Accounts : ran'[t]["adm_rot"] = ran[t]["adm_rot"]
  BY <1>2 DEF Consumed, Domains
<1>6. ReignsEndOnce'
  BY <1>1, <1>5 DEF AInv, Signed, ReignsEndOnce
<1> QED
  BY <1>3, <1>4, <1>6 DEF AInv

\* A rotation ends one reign, starts another and keeps the invariant.
LEMMA RotateKeeps ==
  ASSUME AInv, NEW s \in Accounts, NEW new \in Accounts \cup {Contract},
         NEW n \in Nat, RotateAdmin(s, new, n)
  PROVE  AInv'
<1> DEFINE L == Len(reigns) m == Len(ran[s]["adm_rot"])
<1>1. /\ CheckAndAdvance(s, "adm_rot", n) /\ "adm_rot" \in Domains /\ s = admin
      /\ new # Contract /\ admin' = new /\ stopped' = stopped
      /\ reigns' = Append(reigns, new)
  BY DEF RotateAdmin, RequireAdminAuth, Domains
<1>2. /\ Consumed(s, "adm_rot")
      /\ nonce' \in [Accounts -> [Domains -> 0 .. U64_MAX]]
      /\ ran' \in [Accounts -> [Domains -> Seq(Entry)]]
  BY <1>1, ConsumeStep
<1>3. /\ reigns \in Seq(Accounts \cup {Contract}) /\ L \in Nat \ {0}
      /\ reigns[L] = s /\ new # None
  <2>1. reigns \in Seq(Accounts \cup {Contract}) /\ Len(reigns) > 0
    BY <1>1, AdminAssumption DEF AInv, TypeOK, Throne, AdminAssumption
  <2>2. L \in Nat \ {0} /\ reigns # << >>
    BY <2>1
  <2> QED BY <1>1, <2>1, <2>2, AdminAssumption DEF AInv, ReignsEndOnce, AdminAssumption
<1>4. /\ reigns' \in Seq(Accounts \cup {Contract}) /\ Len(reigns') = L + 1
      /\ DOMAIN reigns' = 1 .. (L + 1) /\ DOMAIN reigns = 1 .. L
      /\ reigns'[L + 1] = new /\ \A i \in 1 .. L : reigns'[i] = reigns[i]
  BY <1>1, <1>3
<1>5. TypeOK' /\ Throne'
  BY <1>1, <1>2, <1>3, <1>4 DEF AInv, TypeOK, Throne
<1>6. \A i \in 1 .. L : reigns[i] \in Accounts
  BY <1>3, <1>4 DEF AInv, Signed
<1>7. Signed'
  BY <1>3, <1>4, <1>6 DEF Signed
<1>8. Counts' /\ NoncesInOrder' /\ ActedInOffice'
  <2>1. DOMAIN reigns \subseteq DOMAIN reigns'
    BY <1>3, <1>4
  <2> QED BY <1>1, <1>2, <1>4, <2>1, ConsumeKeeps
<1>9. /\ m \in Nat
      /\ DOMAIN ran'[s]["adm_rot"] = 1 .. (m + 1) /\ DOMAIN ran[s]["adm_rot"] = 1 .. m
      /\ ran'[s]["adm_rot"][m + 1].reign = L
      /\ \A k \in 1 .. m : ran'[s]["adm_rot"][k] = ran[s]["adm_rot"][k]
      /\ \A t \in Accounts : t # s => ran'[t]["adm_rot"] = ran[t]["adm_rot"]
  <2>1. ran[s]["adm_rot"] \in Seq(Entry)
    BY <1>1 DEF AInv, TypeOK
  <2>2. m \in Nat
    BY <2>1
  <2>3. ran'[s]["adm_rot"][m + 1].reign = L
    BY <1>2 DEF Consumed
  <2> QED BY <1>1, <1>2, <2>2, <2>3 DEF Consumed
<1> HIDE DEF m, L
<1>10. ASSUME NEW i \in DOMAIN reigns', i < Len(reigns')
       PROVE  \E k \in DOMAIN ran'[reigns'[i]]["adm_rot"] :
                ran'[reigns'[i]]["adm_rot"][k].reign = i
  <2>1. i \in 1 .. L /\ reigns'[i] = reigns[i]
    BY <1>3, <1>4, <1>10
  <2>2. CASE i = L
    <3>1. m + 1 \in DOMAIN ran'[s]["adm_rot"]
      BY <1>9
    <3> QED BY <1>3, <1>9, <2>1, <2>2, <3>1
  <2>3. CASE i # L
    <3>1. i \in DOMAIN reigns /\ i < L
      BY <1>3, <1>4, <2>1, <2>3
    <3>2. PICK k \in DOMAIN ran[reigns[i]]["adm_rot"] :
             ran[reigns[i]]["adm_rot"][k].reign = i
      BY <3>1 DEF AInv, ReignsEndOnce, L
    <3>3. CASE reigns[i] = s
      <4>1. k \in 1 .. m /\ k \in 1 .. (m + 1)
        BY <1>9, <3>2, <3>3
      <4> QED BY <1>9, <2>1, <3>2, <3>3, <4>1
    <3>4. CASE reigns[i] # s
      BY <1>6, <1>9, <2>1, <3>2, <3>4
    <3> QED BY <3>3, <3>4
  <2> QED BY <2>2, <2>3
<1>11. ASSUME NEW t \in Accounts, NEW k \in DOMAIN ran'[t]["adm_rot"]
       PROVE  /\ ran'[t]["adm_rot"][k].reign < Len(reigns')
              /\ \A j \in 1 .. (k - 1) :
                   ran'[t]["adm_rot"][j].reign < ran'[t]["adm_rot"][k].reign
  <2>1. ASSUME NEW u \in Accounts, NEW j \in DOMAIN ran[u]["adm_rot"]
        PROVE  /\ ran[u]["adm_rot"][j].reign \in 1 .. L
               /\ ran[u]["adm_rot"][j].reign < L
               /\ \A h \in 1 .. (j - 1) :
                    ran[u]["adm_rot"][h].reign < ran[u]["adm_rot"][j].reign
    <3>1. ran[u]["adm_rot"][j].reign \in 1 .. L
      BY <1>1, <1>4 DEF AInv, ActedInOffice
    <3>2. /\ ran[u]["adm_rot"][j].reign < L
          /\ \A h \in 1 .. (j - 1) :
               ran[u]["adm_rot"][h].reign < ran[u]["adm_rot"][j].reign
      BY DEF AInv, ReignsEndOnce, L
    <3> QED BY <3>1, <3>2
  <2>2. CASE t # s
    <3>1. ran'[t]["adm_rot"] = ran[t]["adm_rot"] /\ k \in DOMAIN ran[t]["adm_rot"]
      BY <1>9, <1>11, <2>2
    <3>2. /\ ran[t]["adm_rot"][k].reign \in 1 .. L
          /\ \A j \in 1 .. (k - 1) :
               ran[t]["adm_rot"][j].reign < ran[t]["adm_rot"][k].reign
      BY <2>1, <3>1
    <3>3. ran[t]["adm_rot"][k].reign < Len(reigns')
      BY <1>3, <1>4, <3>2
    <3> QED BY <3>1, <3>2, <3>3
  <2>3. CASE t = s /\ k \in 1 .. m
    <3>1. /\ ran[s]["adm_rot"][k].reign \in 1 .. L
          /\ \A h \in 1 .. (k - 1) :
               ran[s]["adm_rot"][h].reign < ran[s]["adm_rot"][k].reign
      BY <1>9, <2>1, <2>3
    <3>2. \A j \in 1 .. (k - 1) : j \in 1 .. m
      BY <1>9, <2>3
    <3>3. /\ ran'[s]["adm_rot"][k] = ran[s]["adm_rot"][k]
          /\ \A j \in 1 .. (k - 1) : ran'[s]["adm_rot"][j] = ran[s]["adm_rot"][j]
      BY <1>9, <2>3, <3>2
    <3>4. ran[s]["adm_rot"][k].reign < Len(reigns')
      BY <1>3, <1>4, <3>1
    <3> QED BY <2>3, <3>1, <3>3, <3>4
  <2>4. CASE t = s /\ k = m + 1
    <3>1. \A j \in 1 .. (k - 1) : j \in 1 .. m
      BY <1>9, <2>4
    <3>2. ASSUME NEW j \in 1 .. m
          PROVE  ran'[s]["adm_rot"][j].reign < L
      <4>1. ran'[s]["adm_rot"][j] = ran[s]["adm_rot"][j] /\ j \in DOMAIN ran[s]["adm_rot"]
        BY <1>9
      <4> QED BY <2>1, <4>1
    <3>3. ran'[s]["adm_rot"][k].reign = L /\ L < Len(reigns')
      BY <1>3, <1>4, <1>9, <2>4
    <3> QED BY <2>4, <3>1, <3>2, <3>3
  <2>5. t = s => k \in 1 .. m \/ k = m + 1
    BY <1>9, <1>11
  <2> QED BY <2>2, <2>3, <2>4, <2>5
<1>12. reigns'[Len(reigns')] = admin'
  BY <1>1, <1>4
<1>13. ReignsEndOnce'
  BY <1>10, <1>11, <1>12 DEF ReignsEndOnce
<1> QED
  BY <1>5, <1>7, <1>8, <1>13 DEF AInv

\* Initialisation starts the first reign.
LEMMA InitializeKeeps ==
  ASSUME AInv, NEW a \in Accounts \cup {Contract}, Initialize(a)
  PROVE  AInv'
<1>1. /\ reigns = << >> /\ admin' = a /\ reigns' = Append(reigns, a)
      /\ stopped' = stopped /\ nonce' = nonce /\ ran' = ran
  BY DEF Initialize, AInv, Throne
<1>2. /\ reigns' = <<a>> /\ Len(reigns') = 1 /\ DOMAIN reigns' = {1}
      /\ reigns'[1] = a /\ DOMAIN reigns = {}
  BY <1>1
<1>3. \A s \in Accounts, d \in Domains : DOMAIN ran[s][d] = {}
  BY <1>2 DEF AInv, ActedInOffice
<1>4. reigns' \in Seq(Accounts \cup {Contract})
  BY <1>2
<1>5. TypeOK' /\ Throne' /\ Signed'
  BY <1>1, <1>2, <1>4, AdminAssumption DEF AInv, TypeOK, Throne, Signed, AdminAssumption
<1>6. Counts' /\ NoncesInOrder'
  BY <1>1 DEF AInv, Counts, NoncesInOrder
<1>7. ActedInOffice'
  BY <1>1, <1>3 DEF ActedInOffice
<1>8. ReignsEndOnce'
  BY <1>1, <1>2, <1>3 DEF ReignsEndOnce, Domains
<1> QED
  BY <1>5, <1>6, <1>7, <1>8 DEF AInv

\* Every step keeps the invariant.
LEMMA AStep == AInv /\ [Next]_vars => AInv'
<1> SUFFICES ASSUME AInv, [Next]_vars PROVE AInv'
  OBVIOUS
<1>1. CASE UNCHANGED <<admin, nonce, reigns, ran>> /\ stopped' \in BOOLEAN
  <2>1. TypeOK' /\ Counts' /\ Throne' /\ Signed'
    BY <1>1 DEF AInv, TypeOK, Counts, Throne, Signed
  <2>2. NoncesInOrder' /\ ActedInOffice' /\ ReignsEndOnce'
    BY <1>1 DEF AInv, NoncesInOrder, ActedInOffice, ReignsEndOnce
  <2> QED BY <2>1, <2>2 DEF AInv
<1>2. ASSUME NEW s \in Accounts, NEW on \in BOOLEAN, SetEmergencyStop(s, on)
      PROVE  AInv'
  <2>1. UNCHANGED <<admin, nonce, reigns, ran>> /\ stopped' \in BOOLEAN
    BY <1>2 DEF SetEmergencyStop
  <2> QED BY <1>1, <2>1
<1>3. \A n \in 0 .. U64_MAX : n \in Nat
  BY AdminAssumption DEF AdminAssumption
<1>4. CASE Next
  BY <1>2, <1>3, <1>4, InitializeKeeps, BatchKeeps, RotateKeeps DEF Next
<1>5. CASE UNCHANGED vars
  <2>1. UNCHANGED <<admin, nonce, reigns, ran>> /\ stopped' \in BOOLEAN
    BY <1>5 DEF vars, AInv, TypeOK
  <2> QED BY <1>1, <2>1
<1> QED
  BY <1>4, <1>5

\* The invariant holds throughout.
LEMMA AdminInvariant == Spec => []AInv
  BY AInit, AStep, PTL DEF Spec

-------------------------------------------------------------------------------
(***************************************************************************)
(* However often and in whatever order signed calls are delivered, those   *)
(* of one signer and domain take effect once each, in the order of their   *)
(* nonces (nonce.rs, check_and_advance).                                   *)
(***************************************************************************)
THEOREM NonceTheorem == Spec => []NoncesInOrder
<1>1. AInv => NoncesInOrder
  BY DEF AInv
<1> QED
  BY <1>1, AdminInvariant, PTL

(***************************************************************************)
(* No call takes effect outside a reign of its signer (admin.rs,           *)
(* require_admin_auth and require_stored_admin_auth).                      *)
(***************************************************************************)
THEOREM OfficeTheorem == Spec => []ActedInOffice
<1>1. AInv => ActedInOffice
  BY DEF AInv
<1> QED
  BY <1>1, AdminInvariant, PTL

(***************************************************************************)
(* Every reign but the last was ended by exactly one rotation of its own   *)
(* administrator (admin.rs, do_rotate_admin).                              *)
(***************************************************************************)
THEOREM SuccessionTheorem == Spec => []ReignsEndOnce
<1>1. AInv => ReignsEndOnce
  BY DEF AInv
<1> QED
  BY <1>1, AdminInvariant, PTL
===============================================================================
