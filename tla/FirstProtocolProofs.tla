------------------------ MODULE FirstProtocolProofs ------------------------
(***************************************************************************)
(* Proofs about the first protocol for any users, thresholds and numbers   *)
(* of submissions: whatever index a vote goes through, the token found     *)
(* there leaves its array as a whole, so no contract is listed twice, no   *)
(* more is saved than submitted, and the other tokens stay where their     *)
(* indices say.  The rewards of a verdict add up to what its right votes   *)
(* earn, whoever receives them.                                            *)
(***************************************************************************)
EXTENDS FirstProtocol, DataLemmas, FiniteSetTheorems

LEMMA ProductNat ==
    ASSUME NEW a \in Nat, NEW b \in Nat
    PROVE  a * b \in Nat
OBVIOUS

LEMMA QuotientNat ==
    ASSUME NEW a \in Nat, NEW n \in Nat \ {0}
    PROVE  a \div n \in Nat
OBVIOUS

LEMMA CoeffNat ==
    ASSUME NEW payment \in Payments
    PROVE  Coeff(payment) \in Nat
<1>1. payment * 1000 \in Nat /\ submitFloorPrice \in Nat \ {0}
  BY FirstProtocolAssumption
<1> QED
  BY <1>1, QuotientNat DEF Coeff

LEMMA CoeffsNat == Coeffs \subseteq Nat
BY CoeffNat DEF Coeffs

LEMMA TimesNat ==
    ASSUME NEW S, NEW voters \in Seq(S), NEW u
    PROVE  Times(u, voters) \in Nat
<1>1. DOMAIN voters = 1..Len(voters) /\ Len(voters) \in Nat
  BY LenProperties
<1>2. IsFiniteSet(1..Len(voters))
  BY <1>1, FS_Interval
<1>3. {i \in DOMAIN voters : voters[i] = u} \subseteq 1..Len(voters)
  BY <1>1
<1>4. IsFiniteSet({i \in DOMAIN voters : voters[i] = u})
  BY <1>2, <1>3, FS_Subset
<1> QED
  BY <1>4, FS_CardinalityType DEF Times

-----------------------------------------------------------------------------
(* Leaving an array *)

(* after holds tokens of pending[stage], each at most once: the token at i  *)
(* was at origin[i].                                                        *)
Picks(stage, after, origin) ==
    /\ origin \in [1..Len(after) -> 1..Len(pending[stage])]
    /\ \A i, j \in 1..Len(after) : origin[i] = origin[j] => i = j
    /\ \A i \in 1..Len(after) : after[i] = pending[stage][origin[i]]

LEMMA PendingTypes ==
    ASSUME FirstTypeOK, NEW stage \in Stages
    PROVE  /\ pending[stage] \in Seq(Tokens)
           /\ Len(pending[stage]) \in Nat
           /\ DOMAIN pending[stage] = 1..Len(pending[stage])
           /\ indexOf[stage] \in [TokenIds -> Nat]
           /\ \A i \in 1..Len(pending[stage]) :
                 pending[stage][i] \in Tokens /\ pending[stage][i].id \in TokenIds
<1>1. pending[stage] \in Seq(Tokens) /\ indexOf[stage] \in [TokenIds -> Nat]
  BY DEF FirstTypeOK
<1>2. \A i \in 1..Len(pending[stage]) : pending[stage][i] \in Tokens
  BY <1>1, ElementOfSeq
<1> QED
  BY <1>1, <1>2, LenProperties DEF Tokens

LEMMA PendingWithoutProperties ==
    ASSUME FirstTypeOK, NEW stage \in Stages,
           NEW p \in Nat, p < Len(pending[stage])
    PROVE  /\ PendingWithout(stage, p) \in Seq(Tokens)
           /\ Len(PendingWithout(stage, p)) = Len(pending[stage]) - 1
           /\ \A i \in 1..(Len(pending[stage]) - 1) :
                 PendingWithout(stage, p)[i] =
                     IF i = p + 1 THEN pending[stage][Len(pending[stage])]
                     ELSE pending[stage][i]
BY PendingTypes, SwapAndPopProperties DEF PendingWithout

LEMMA IndexWithoutProperties ==
    ASSUME FirstTypeOK, NEW stage \in Stages,
           NEW p \in Nat, p < Len(pending[stage])
    PROVE  /\ IndexWithout(stage, p) \in [TokenIds -> Nat]
           /\ \A t \in TokenIds :
                 IndexWithout(stage, p)[t] =
                     IF t = pending[stage][Len(pending[stage])].id THEN p
                     ELSE indexOf[stage][t]
BY PendingTypes DEF IndexWithout, LastOf

LEMMA WithoutPicks ==
    ASSUME FirstTypeOK, NEW stage \in Stages,
           NEW p \in Nat, p < Len(pending[stage])
    PROVE  \E origin : /\ Picks(stage, PendingWithout(stage, p), origin)
                       /\ \A i \in 1..Len(PendingWithout(stage, p)) : origin[i] # p + 1
<1> DEFINE n == Len(pending[stage])
           after == PendingWithout(stage, p)
           origin == [i \in 1..(n - 1) |-> IF i = p + 1 THEN n ELSE i]
<1>1. /\ n \in Nat
      /\ Len(after) = n - 1
      /\ \A i \in 1..(n - 1) :
            after[i] = IF i = p + 1 THEN pending[stage][n] ELSE pending[stage][i]
  BY PendingTypes, PendingWithoutProperties
<1>2. p < n
  OBVIOUS
<1> HIDE DEF n, after
<1>3. /\ origin \in [1..Len(after) -> 1..n]
      /\ \A i, j \in 1..Len(after) : origin[i] = origin[j] => i = j
      /\ \A i \in 1..Len(after) : after[i] = pending[stage][origin[i]]
      /\ \A i \in 1..Len(after) : origin[i] # p + 1
  BY <1>1, <1>2
<1> HIDE DEF origin
<1> QED
  BY <1>3 DEF Picks, n, after

LEMMA SamePicks ==
    ASSUME FirstTypeOK, NEW stage \in Stages
    PROVE  \E origin : Picks(stage, pending[stage], origin)
<1> DEFINE n == Len(pending[stage])
           origin == [i \in 1..n |-> i]
<1>1. /\ origin \in [1..n -> 1..n]
      /\ \A i, j \in 1..n : origin[i] = origin[j] => i = j
      /\ \A i \in 1..n : pending[stage][i] = pending[stage][origin[i]]
  OBVIOUS
<1> HIDE DEF origin
<1> QED
  BY <1>1 DEF Picks

(* Two pending tokens that share a contract are one. *)
LEMMA SharedContract ==
    ASSUME FirstTypeOK, NoContractPendingTwice,
           NEW r \in Stages, NEW s \in Stages,
           NEW i \in 1..Len(pending[r]), NEW j \in 1..Len(pending[s]),
           pending[r][i].contracts \cap pending[s][j].contracts # {}
    PROVE  r = s /\ i = j
BY PendingTypes DEF NoContractPendingTwice

LEMMA RemovalKeepsDisjoint ==
    ASSUME FirstTypeOK, NoContractPendingTwice,
           pending' \in [Stages -> Seq(Tokens)],
           \A s \in Stages : \E origin : Picks(s, pending'[s], origin)
    PROVE  NoContractPendingTwice'
<1> SUFFICES ASSUME NEW r \in Stages, NEW s \in Stages,
                    NEW i \in DOMAIN pending'[r], NEW j \in DOMAIN pending'[s],
                    pending'[r][i].contracts \cap pending'[s][j].contracts # {}
             PROVE  r = s /\ i = j
  BY DEF NoContractPendingTwice
<1>1. i \in 1..Len(pending'[r]) /\ j \in 1..Len(pending'[s])
  BY LenProperties
<1>2. PICK f : Picks(r, pending'[r], f)
  OBVIOUS
<1>3. CASE r = s
  <2>1. /\ f[i] \in 1..Len(pending[r]) /\ pending'[r][i] = pending[r][f[i]]
        /\ f[j] \in 1..Len(pending[r]) /\ pending'[s][j] = pending[r][f[j]]
    BY <1>1, <1>2, <1>3 DEF Picks
  <2>2. f[i] = f[j]
    BY <2>1, SharedContract
  <2> QED
    BY <1>1, <1>2, <1>3, <2>2 DEF Picks
<1>4. CASE r # s
  <2>1. PICK g : Picks(s, pending'[s], g)
    OBVIOUS
  <2>2. /\ f[i] \in 1..Len(pending[r]) /\ pending'[r][i] = pending[r][f[i]]
        /\ g[j] \in 1..Len(pending[s]) /\ pending'[s][j] = pending[s][g[j]]
    BY <1>1, <1>2, <2>1 DEF Picks
  <2> QED
    BY <1>4, <2>2, SharedContract
<1> QED
  BY <1>3, <1>4

(* A token moves from position p of firstSortTokens to the end of           *)
(* finalValidationTokens.                                                   *)
LEMMA MoveKeepsDisjoint ==
    ASSUME FirstTypeOK, NoContractPendingTwice,
           NEW p \in Nat, p < Len(pending["First"]),
           pending' = [First |-> PendingWithout("First", p),
                       Final |-> Append(pending["Final"], pending["First"][p + 1])]
    PROVE  NoContractPendingTwice'
<1> DEFINE moved == pending["First"][p + 1]
           m == Len(pending["Final"])
<1>1. /\ "First" \in Stages /\ "Final" \in Stages
      /\ \A s \in Stages : s = "First" \/ s = "Final"
  BY DEF Stages
<1>2. /\ m \in Nat /\ pending["Final"] \in Seq(Tokens)
      /\ p + 1 \in 1..Len(pending["First"]) /\ moved \in Tokens
  BY <1>1, PendingTypes
<1>3. /\ pending'["First"] \in Seq(Tokens) /\ pending'["Final"] \in Seq(Tokens)
      /\ Len(pending'["Final"]) = m + 1
      /\ pending'["Final"][m + 1] = moved
      /\ \A i \in 1..m : pending'["Final"][i] = pending["Final"][i]
  BY <1>1, <1>2, PendingWithoutProperties, AppendProperties
<1>4. PICK f : /\ Picks("First", pending'["First"], f)
               /\ \A i \in 1..Len(pending'["First"]) : f[i] # p + 1
  BY <1>1, WithoutPicks
<1>5. \A i \in 1..Len(pending'["First"]) :
         /\ f[i] \in 1..Len(pending["First"]) /\ f[i] # p + 1
         /\ pending'["First"][i] = pending["First"][f[i]]
  BY <1>4 DEF Picks
<1>apart. \A a \in 1..Len(pending["First"]), b \in 1..Len(pending["Final"]) :
             pending["First"][a].contracts \cap pending["Final"][b].contracts = {}
  <2>1. "First" # "Final"
    OBVIOUS
  <2> QED
    BY <1>1, <2>1, SharedContract, Zenon
<1>first. \A a, b \in 1..Len(pending["First"]) :
             pending["First"][a].contracts \cap pending["First"][b].contracts # {}
                 => a = b
  BY <1>1, SharedContract, Zenon
<1>final. \A a, b \in 1..Len(pending["Final"]) :
             pending["Final"][a].contracts \cap pending["Final"][b].contracts # {}
                 => a = b
  BY <1>1, SharedContract, Zenon
<1>0. m = Len(pending["Final"])
  OBVIOUS
<1> HIDE DEF moved, m
<1>6. ASSUME NEW i \in 1..Len(pending'["First"]), NEW j \in 1..Len(pending'["Final"]),
             pending'["First"][i].contracts \cap pending'["Final"][j].contracts # {}
      PROVE  FALSE
  <2>1. CASE j = m + 1
    <3>1. /\ p + 1 \in 1..Len(pending["First"])
          /\ pending["First"][f[i]].contracts \cap pending["First"][p + 1].contracts # {}
      BY <1>2, <1>3, <1>5, <1>6, <2>1 DEF moved
    <3>2. f[i] = p + 1
      BY <1>5, <1>first, <3>1
    <3> QED
      BY <1>5, <3>2
  <2>2. CASE j # m + 1
    <3>1. j \in 1..m
      BY <1>2, <1>3, <2>2
    <3> QED
      BY <1>0, <1>3, <1>5, <1>6, <1>apart, <3>1
  <2> QED
    BY <2>1, <2>2
<1>7. ASSUME NEW i \in 1..Len(pending'["First"]), NEW j \in 1..Len(pending'["First"]),
             pending'["First"][i].contracts \cap pending'["First"][j].contracts # {}
      PROVE  i = j
  <2>1. pending["First"][f[i]].contracts \cap pending["First"][f[j]].contracts # {}
    BY <1>5, <1>7
  <2>2. f[i] \in 1..Len(pending["First"]) /\ f[j] \in 1..Len(pending["First"])
    BY <1>5
  <2>3. f[i] = f[j]
    BY <1>first, <2>1, <2>2, Zenon
  <2> QED
    BY <1>4, <2>3 DEF Picks
<1>8. ASSUME NEW i \in 1..Len(pending'["Final"]), NEW j \in 1..Len(pending'["Final"]),
             pending'["Final"][i].contracts \cap pending'["Final"][j].contracts # {}
      PROVE  i = j
  <2>1. CASE i = m + 1 /\ j = m + 1
    BY <2>1
  <2>2. CASE i # m + 1 /\ j # m + 1
    <3>1. i \in 1..m /\ j \in 1..m
      BY <1>2, <1>3, <2>2
    <3>2. pending["Final"][i].contracts \cap pending["Final"][j].contracts # {}
      BY <1>3, <1>8, <3>1
    <3> QED
      BY <1>0, <1>final, <3>1, <3>2
  <2>3. CASE i = m + 1 /\ j # m + 1
    <3>1. j \in 1..m
      BY <1>2, <1>3, <2>3
    <3>2. pending["First"][p + 1].contracts \cap pending["Final"][j].contracts # {}
      BY <1>3, <1>8, <2>3, <3>1 DEF moved
    <3> QED
      BY <1>0, <1>2, <1>apart, <3>1, <3>2
  <2>4. CASE i # m + 1 /\ j = m + 1
    <3>1. i \in 1..m
      BY <1>2, <1>3, <2>4
    <3>2. pending["First"][p + 1].contracts \cap pending["Final"][i].contracts # {}
      BY <1>3, <1>8, <2>4, <3>1 DEF moved
    <3> QED
      BY <1>0, <1>2, <1>apart, <3>1, <3>2
  <2> QED
    BY <2>1, <2>2, <2>3, <2>4
<1>9. /\ DOMAIN pending'["First"] = 1..Len(pending'["First"])
      /\ DOMAIN pending'["Final"] = 1..Len(pending'["Final"])
  BY <1>3, LenProperties
<1>10. ASSUME NEW r \in Stages, NEW s \in Stages,
              NEW i \in DOMAIN pending'[r], NEW j \in DOMAIN pending'[s],
              pending'[r][i].contracts \cap pending'[s][j].contracts # {}
       PROVE  r = s /\ i = j
  <2>1. CASE r = "First" /\ s = "First"
    BY <1>7, <1>9, <1>10, <2>1
  <2>2. CASE r = "Final" /\ s = "Final"
    BY <1>8, <1>9, <1>10, <2>2
  <2>3. CASE r = "First" /\ s = "Final"
    BY <1>6, <1>9, <1>10, <2>3
  <2>4. CASE r = "Final" /\ s = "First"
    <3>1. pending'["First"][j].contracts \cap pending'["Final"][i].contracts # {}
      BY <1>10, <2>4
    <3> QED
      BY <1>6, <1>9, <1>10, <2>4, <3>1
  <2> QED
    BY <1>1, <2>1, <2>2, <2>3, <2>4
<1> QED
  BY <1>10 DEF NoContractPendingTwice

(* A token whose contracts nobody lists is appended to firstSortTokens. *)
LEMMA AppendKeepsDisjoint ==
    ASSUME FirstTypeOK, NoContractPendingTwice,
           NEW token \in Tokens, ContractsFree(token.contracts),
           pending' = [pending EXCEPT !["First"] = Append(pending["First"], token)]
    PROVE  /\ pending' \in [Stages -> Seq(Tokens)]
           /\ NoContractPendingTwice'
<1> DEFINE n == Len(pending["First"])
<1>1. /\ "First" \in Stages /\ "Final" \in Stages
      /\ \A s \in Stages : s = "First" \/ s = "Final"
  BY DEF Stages
<1>2. n \in Nat /\ pending["First"] \in Seq(Tokens)
  BY <1>1, PendingTypes
<1>3. /\ pending'["First"] = Append(pending["First"], token)
      /\ pending'["Final"] = pending["Final"]
  BY <1>1 DEF FirstTypeOK
<1>4. /\ pending'["First"] \in Seq(Tokens)
      /\ Len(pending'["First"]) = n + 1
      /\ pending'["First"][n + 1] = token
      /\ \A i \in 1..n : pending'["First"][i] = pending["First"][i]
  BY <1>2, <1>3, AppendProperties
<1>5. pending' \in [Stages -> Seq(Tokens)]
  BY <1>1, <1>2, <1>4 DEF FirstTypeOK
<1> HIDE DEF n
<1>6. \A s \in Stages : DOMAIN pending'[s] = 1..Len(pending'[s])
  BY <1>5, LenProperties
<1>7. ASSUME NEW s \in Stages, NEW i \in 1..Len(pending'[s]),
             ~(s = "First" /\ i = n + 1)
      PROVE  /\ i \in 1..Len(pending[s])
             /\ pending'[s][i] = pending[s][i]
             /\ pending'[s][i].contracts \cap token.contracts = {}
  <2>1. i \in 1..Len(pending[s]) /\ pending'[s][i] = pending[s][i]
    BY <1>1, <1>2, <1>3, <1>4, <1>7 DEF n
  <2> QED
    BY <2>1, PendingTypes DEF ContractsFree
<1>8. ASSUME NEW r \in Stages, NEW s \in Stages,
             NEW i \in DOMAIN pending'[r], NEW j \in DOMAIN pending'[s],
             pending'[r][i].contracts \cap pending'[s][j].contracts # {}
      PROVE  r = s /\ i = j
  <2>1. i \in 1..Len(pending'[r]) /\ j \in 1..Len(pending'[s])
    BY <1>6
  <2>2. CASE (r = "First" /\ i = n + 1) /\ (s = "First" /\ j = n + 1)
    BY <2>2
  <2>3. CASE (r = "First" /\ i = n + 1) /\ ~(s = "First" /\ j = n + 1)
    <3>1. pending'[r][i] = token
      BY <1>4, <2>3
    <3> QED
      BY <1>7, <1>8, <2>1, <2>3, <3>1
  <2>4. CASE ~(r = "First" /\ i = n + 1) /\ (s = "First" /\ j = n + 1)
    <3>1. pending'[s][j] = token
      BY <1>4, <2>4
    <3> QED
      BY <1>7, <1>8, <2>1, <2>4, <3>1
  <2>5. CASE ~(r = "First" /\ i = n + 1) /\ ~(s = "First" /\ j = n + 1)
    BY <1>7, <1>8, <2>1, <2>5, SharedContract
  <2> QED
    BY <2>2, <2>3, <2>4, <2>5
<1> QED
  BY <1>5, <1>8 DEF NoContractPendingTwice

-----------------------------------------------------------------------------
(* Indices *)

LEMMA RemovalKeepsIndices ==
    ASSUME FirstTypeOK, NEW stage \in Stages,
           NEW p \in Nat, p < Len(pending[stage]), Indexed(stage),
           pending'[stage] = PendingWithout(stage, p),
           indexOf'[stage] = IndexWithout(stage, p)
    PROVE  Indexed(stage)'
<1> DEFINE n == Len(pending[stage])
<1>1. /\ n \in Nat
      /\ pending'[stage] \in Seq(Tokens)
      /\ Len(pending'[stage]) = n - 1
      /\ \A i \in 1..(n - 1) :
            pending'[stage][i] = IF i = p + 1 THEN pending[stage][n] ELSE pending[stage][i]
  BY PendingTypes, PendingWithoutProperties
<1>2. \A t \in TokenIds :
         indexOf'[stage][t] = IF t = pending[stage][n].id THEN p ELSE indexOf[stage][t]
  BY IndexWithoutProperties
<1>3. \A i \in 1..n : /\ pending[stage][i].id \in TokenIds
                      /\ indexOf[stage][pending[stage][i].id] + 1 = i
                      /\ indexOf[stage][pending[stage][i].id] \in Nat
  BY PendingTypes DEF Indexed
<1>4. p < n
  OBVIOUS
<1> HIDE DEF n
<1>5. ASSUME NEW i \in 1..(n - 1)
      PROVE  indexOf'[stage][pending'[stage][i].id] + 1 = i
  <2>1. CASE i = p + 1
    <3>1. n \in 1..n /\ pending'[stage][i] = pending[stage][n]
      BY <1>1, <2>1
    <3>2. indexOf'[stage][pending[stage][n].id] = p
      BY <1>2, <1>3, <3>1
    <3> QED
      BY <2>1, <3>1, <3>2
  <2>2. CASE i # p + 1
    <3>1. /\ pending'[stage][i] = pending[stage][i]
          /\ i \in 1..n /\ n \in 1..n /\ i # n
      BY <1>1, <2>2
    <3>2. pending[stage][i].id # pending[stage][n].id
      BY <1>3, <3>1
    <3> QED
      BY <1>2, <1>3, <3>1, <3>2
  <2> QED
    BY <2>1, <2>2
<1>6. DOMAIN pending'[stage] = 1..(n - 1)
  BY <1>1, LenProperties
<1> QED
  BY <1>5, <1>6 DEF Indexed

-----------------------------------------------------------------------------
(* What the calls do to the types *)

LEMMA CastVoteTypes ==
    ASSUME FirstTypeOK, NEW stage \in Stages, NEW u \in Users,
           NEW id \in TokenIds, NEW validate \in BOOLEAN,
           CastVote(stage, u, id, validate)
    PROVE  onRecord' \in [Stages -> [BOOLEAN -> [TokenIds -> Seq(Users)]]]
<1> DEFINE voters == Append(onRecord[stage][validate][id], u)
           byId == [onRecord[stage][validate] EXCEPT ![id] = voters]
           byVote == [onRecord[stage] EXCEPT ![validate] = byId]
<1>1. /\ onRecord \in [Stages -> [BOOLEAN -> [TokenIds -> Seq(Users)]]]
      /\ onRecord[stage] \in [BOOLEAN -> [TokenIds -> Seq(Users)]]
      /\ onRecord[stage][validate] \in [TokenIds -> Seq(Users)]
      /\ onRecord[stage][validate][id] \in Seq(Users)
  BY DEF FirstTypeOK
<1>2. voters \in Seq(Users)
  BY <1>1, AppendProperties
<1>3. onRecord' = [onRecord EXCEPT ![stage] = byVote]
  BY Zenon DEF CastVote
<1> HIDE DEF voters
<1>4. byId \in [TokenIds -> Seq(Users)]
  BY <1>1, <1>2
<1> HIDE DEF byId
<1>5. byVote \in [BOOLEAN -> [TokenIds -> Seq(Users)]]
  BY <1>1, <1>4
<1> HIDE DEF byVote
<1> QED
  BY <1>1, <1>3, <1>5

LEMMA MarkedTypes ==
    ASSUME FirstTypeOK, NEW stage \in Stages, NEW u \in Users, NEW id \in TokenIds
    PROVE  Marked(stage, u, id) \in [Stages -> [Users -> [TokenIds -> BOOLEAN]]]
<1> DEFINE byId == [voted[stage][u] EXCEPT ![id] = TRUE]
           byUser == [voted[stage] EXCEPT ![u] = byId]
<1>1. /\ voted \in [Stages -> [Users -> [TokenIds -> BOOLEAN]]]
      /\ voted[stage] \in [Users -> [TokenIds -> BOOLEAN]]
      /\ voted[stage][u] \in [TokenIds -> BOOLEAN]
  BY DEF FirstTypeOK
<1>2. Marked(stage, u, id) = [voted EXCEPT ![stage] = byUser]
  BY Zenon DEF Marked
<1>3. byId \in [TokenIds -> BOOLEAN]
  BY <1>1
<1> HIDE DEF byId
<1>4. byUser \in [Users -> [TokenIds -> BOOLEAN]]
  BY <1>1, <1>3
<1> HIDE DEF byUser
<1> QED
  BY <1>1, <1>2, <1>4

LEMMA UnmarkedTypes ==
    ASSUME NEW marks \in [Stages -> [Users -> [TokenIds -> BOOLEAN]]], NEW id
    PROVE  Unmarked(marks, id) \in [Stages -> [Users -> [TokenIds -> BOOLEAN]]]
<1> DEFINE Kept(s, u, t) ==
               /\ marks[s][u][t]
               /\ ~(t = id /\ \E v \in BOOLEAN : Times(u, onRecord'[s][v][id]) > 0)
<1>1. Unmarked(marks, id) =
         [s \in Stages |-> [u \in Users |-> [t \in TokenIds |-> Kept(s, u, t)]]]
  BY DEF Unmarked
<1>2. \A s, u, t : Kept(s, u, t) \in BOOLEAN
  OBVIOUS
<1> HIDE DEF Kept
<1>3. \A s, u : [t \in TokenIds |-> Kept(s, u, t)] \in [TokenIds -> BOOLEAN]
  BY <1>2
<1>4. \A s : [u \in Users |-> [t \in TokenIds |-> Kept(s, u, t)]]
                 \in [Users -> [TokenIds -> BOOLEAN]]
  BY <1>3
<1> QED
  BY <1>1, <1>4

LEMMA RewardedNat ==
    ASSUME onRecord' \in [Stages -> [BOOLEAN -> [TokenIds -> Seq(Users)]]],
           NEW u \in Users, NEW id \in TokenIds, NEW verdict \in BOOLEAN,
           HasReceivers(id, verdict)
    PROVE  Rewarded(u, id, verdict) \in Nat
<1> DEFINE receivers == onRecord'["First"][TRUE][id]
           Paid(stage) ==
               Times(u, SubSeq(receivers, 1, Len(onRecord'[stage][verdict][id])))
<1>1. "First" \in Stages /\ "Final" \in Stages
  BY DEF Stages
<1>0. receivers \in Seq(Users)
  <2>1. onRecord'["First"] \in [BOOLEAN -> [TokenIds -> Seq(Users)]]
    BY <1>1
  <2>2. onRecord'["First"][TRUE] \in [TokenIds -> Seq(Users)]
    BY <2>1
  <2> QED
    BY <2>2
<1> HIDE DEF receivers
<1>2. /\ receivers \in Seq(Users) /\ Len(receivers) \in Nat
      /\ \A i \in 1..Len(receivers) : receivers[i] \in Users
  BY <1>0, ElementOfSeq, LenProperties
<1> USE DEF receivers
<1>3. ASSUME NEW stage \in Stages
      PROVE  Paid(stage) \in Nat
  <2>1. onRecord'[stage][verdict][id] \in Seq(Users)
    OBVIOUS
  <2>2. /\ Len(onRecord'[stage][verdict][id]) \in Nat
        /\ Len(onRecord'[stage][verdict][id]) <= Len(receivers)
    BY <2>1, LenProperties DEF HasReceivers
  <2> HIDE DEF receivers
  <2>3. SubSeq(receivers, 1, Len(onRecord'[stage][verdict][id])) \in Seq(Users)
    BY <1>2, <2>2, SubSeqProperties
  <2> QED
    BY <2>3, TimesNat
<1>4. Rewarded(u, id, verdict) = Paid("First") + 2 * Paid("Final")
  BY DEF Rewarded
<1> HIDE DEF Paid
<1> QED
  BY <1>1, <1>3, <1>4

LEMMA TimesOnRecordNat ==
    ASSUME onRecord' \in [Stages -> [BOOLEAN -> [TokenIds -> Seq(Users)]]],
           NEW s \in Stages, NEW u \in Users, NEW id \in TokenIds, NEW v \in BOOLEAN
    PROVE  Times(u, onRecord'[s][v][id]) \in Nat
<1>1. onRecord'[s][v][id] \in Seq(Users)
  OBVIOUS
<1> QED
  BY <1>1, TimesNat

(* The token a vote finds, and where. *)
LEMMA FoundToken ==
    ASSUME FirstTypeOK, NEW stage \in Stages, NEW id \in TokenIds, Found(stage, id)
    PROVE  /\ indexOf[stage][id] \in Nat
           /\ indexOf[stage][id] < Len(pending[stage])
           /\ At(stage, id) \in Tokens
           /\ At(stage, id) = pending[stage][indexOf[stage][id] + 1]
<1>1. indexOf[stage][id] \in Nat /\ indexOf[stage][id] < Len(pending[stage])
  BY PendingTypes DEF Found
<1>2. indexOf[stage][id] + 1 \in 1..Len(pending[stage])
  BY <1>1, PendingTypes
<1> QED
  BY <1>1, <1>2, PendingTypes DEF At

-----------------------------------------------------------------------------
(* The invariant *)

FirstInv ==
    /\ FirstTypeOK
    /\ NoContractPendingTwice
    /\ NothingSavedTwice

LEMMA StageNames ==
    /\ "First" \in Stages /\ "Final" \in Stages
    /\ \A s \in Stages : s = "First" \/ s = "Final"
BY DEF Stages

LEMMA PairOfStages ==
    ASSUME NEW S, NEW a \in S, NEW b \in S
    PROVE  [First |-> a, Final |-> b] \in [Stages -> S]
BY DEF Stages

LEMMA SumBound ==
    \A a, b, c, d, x, y \in Nat : c + d <= a + b /\ x + a + b <= y => x + c + d <= y
OBVIOUS

LEMMA SumMoved ==
    \A a, b, c, d \in Nat : c = a - 1 /\ d = b + 1 => c + d <= a + b
OBVIOUS

(* The terms of NothingSavedTwice. *)
LEMMA CountTypes ==
    ASSUME FirstInv
    PROVE  /\ submitted \in Nat /\ assets \in Nat
           /\ Len(pending["First"]) \in Nat /\ Len(pending["Final"]) \in Nat
           /\ assets + Len(pending["First"]) + Len(pending["Final"]) <= submitted
<1>1. FirstTypeOK
  BY DEF FirstInv
<1>2. Len(pending["First"]) \in Nat /\ Len(pending["Final"]) \in Nat
  BY <1>1, StageNames, PendingTypes
<1>3. submitted \in 0..MaxSubmissions /\ assets \in Nat
  BY <1>1 DEF FirstTypeOK
<1>4. submitted \in Nat
  BY <1>3, FirstProtocolAssumption
<1>5. assets + Len(pending["First"]) + Len(pending["Final"]) <= submitted
  BY DEF FirstInv, NothingSavedTwice
<1> QED
  BY <1>2, <1>3, <1>4, <1>5

LEMMA SubmitPreserves ==
    ASSUME FirstInv, NEW contracts \in SUBSET Contracts, NEW payment \in Payments,
           NEW assetId \in TokenIds, submitIPFS(contracts, payment, assetId)
    PROVE  FirstInv'
<1> DEFINE id == IF assetId = 0 THEN submitted ELSE assetId
           token == [id |-> id, contracts |-> contracts, lastUpdate |-> now,
                     coeff |-> Coeff(payment)]
           positions == [indexOf["First"] EXCEPT ![id] = Len(pending["First"])]
<1>1. FirstTypeOK /\ NoContractPendingTwice /\ now \in Nat
  BY DEF FirstInv, FirstTypeOK
<1>2. /\ submitted < MaxSubmissions
      /\ contracts # {}
      /\ payment >= submitFloorPrice
      /\ ContractsFree(contracts)
      /\ submitted' = submitted + 1
      /\ pending' = [pending EXCEPT !["First"] = Append(pending["First"], token)]
      /\ UNCHANGED <<assets, voted, onRecord, good, bad, owedRewards, paidRewards,
                     mobl, rank, promoteVotes, demoteVotes, members, now>>
  BY DEF submitIPFS, voteVars, rewardVars, rankVars
<1>3. id \in TokenIds
  BY <1>2, CountTypes, FirstProtocolAssumption DEF TokenIds
<1>4. indexOf' = [indexOf EXCEPT !["First"] = positions]
  BY Zenon DEF submitIPFS
<1>5. Coeff(payment) \in Coeffs
  BY <1>2 DEF Coeffs
<1> HIDE DEF id
<1>6. token \in Tokens /\ token.contracts = contracts
  BY <1>1, <1>2, <1>3, <1>5 DEF Tokens
<1> HIDE DEF token
<1>7. pending' \in [Stages -> Seq(Tokens)] /\ NoContractPendingTwice'
  BY <1>1, <1>2, <1>6, AppendKeepsDisjoint
<1>8. indexOf' \in [Stages -> [TokenIds -> Nat]]
  <2>1. positions \in [TokenIds -> Nat]
    BY <1>1, <1>3, StageNames, PendingTypes
  <2> HIDE DEF positions
  <2> QED
    BY <1>1, <1>4, <2>1 DEF FirstTypeOK
<1>9. /\ Len(pending'["First"]) = Len(pending["First"]) + 1
      /\ pending'["Final"] = pending["Final"]
  <2>1. pending["First"] \in Seq(Tokens)
    BY <1>1, StageNames, PendingTypes
  <2>2. /\ pending'["First"] = Append(pending["First"], token)
        /\ pending'["Final"] = pending["Final"]
    BY <1>1, <1>2, StageNames DEF FirstTypeOK
  <2> QED
    BY <1>6, <2>1, <2>2, AppendProperties
<1>10. NothingSavedTwice'
  BY <1>2, <1>9, CountTypes DEF NothingSavedTwice
<1>11. submitted' \in 0..MaxSubmissions
  BY <1>2, CountTypes, FirstProtocolAssumption
<1>12. FirstTypeOK'
  BY <1>1, <1>2, <1>7, <1>8, <1>11 DEF FirstTypeOK
<1> QED
  BY <1>7, <1>10, <1>12 DEF FirstInv

LEMMA FirstSortVotePreserves ==
    ASSUME FirstInv, NEW u \in Users, NEW id \in TokenIds, NEW validate \in BOOLEAN,
           firstSortVote(u, id, validate)
    PROVE  FirstInv'
<1> DEFINE p == indexOf["First"][id]
           left == PendingWithout("First", p)
           index == IndexWithout("First", p)
           entered == [indexOf["Final"] EXCEPT ![id] = Len(pending["Final"])]
<1>1. FirstTypeOK /\ NoContractPendingTwice
  BY DEF FirstInv
<1>2. /\ p \in Nat /\ p < Len(pending["First"])
      /\ At("First", id) \in Tokens
      /\ At("First", id) = pending["First"][p + 1]
  BY <1>1, StageNames, FoundToken DEF firstSortVote
<1>3. /\ left \in Seq(Tokens)
      /\ Len(left) = Len(pending["First"]) - 1
      /\ index \in [TokenIds -> Nat]
      /\ entered \in [TokenIds -> Nat]
  BY <1>1, <1>2, StageNames, PendingTypes, PendingWithoutProperties,
     IndexWithoutProperties
<1>4. /\ CastVote("First", u, id, validate)
      /\ voted' = Marked("First", u, id)
      /\ UNCHANGED <<submitted, assets, good, bad, owedRewards, paidRewards, mobl,
                     rank, promoteVotes, demoteVotes, members, now>>
  BY DEF firstSortVote, rewardVars, rankVars
<1>5. \/ UNCHANGED <<pending, indexOf>>
      \/ /\ pending' = [First |-> left,
                        Final |-> Append(pending["Final"], At("First", id))]
         /\ indexOf' = [First |-> index, Final |-> entered]
      \/ /\ pending' = [pending EXCEPT !["First"] = left]
         /\ indexOf' = [indexOf EXCEPT !["First"] = index]
  BY DEF firstSortVote
<1>0. /\ submitted \in Nat /\ assets \in Nat
      /\ Len(pending["First"]) \in Nat /\ Len(pending["Final"]) \in Nat
      /\ assets + Len(pending["First"]) + Len(pending["Final"]) <= submitted
  BY CountTypes
<1>6. /\ onRecord' \in [Stages -> [BOOLEAN -> [TokenIds -> Seq(Users)]]]
      /\ voted' \in [Stages -> [Users -> [TokenIds -> BOOLEAN]]]
  BY <1>1, <1>4, StageNames, CastVoteTypes, MarkedTypes
<1>8. SUFFICES /\ pending' \in [Stages -> Seq(Tokens)]
               /\ indexOf' \in [Stages -> [TokenIds -> Nat]]
               /\ NoContractPendingTwice'
               /\ Len(pending'["First"]) + Len(pending'["Final"])
                      <= Len(pending["First"]) + Len(pending["Final"])
               /\ Len(pending'["First"]) \in Nat /\ Len(pending'["Final"]) \in Nat
  <2>1. CASE /\ pending' \in [Stages -> Seq(Tokens)]
             /\ indexOf' \in [Stages -> [TokenIds -> Nat]]
             /\ NoContractPendingTwice'
             /\ Len(pending'["First"]) + Len(pending'["Final"])
                    <= Len(pending["First"]) + Len(pending["Final"])
             /\ Len(pending'["First"]) \in Nat /\ Len(pending'["Final"]) \in Nat
    <3>1. FirstTypeOK'
      BY <1>1, <1>4, <1>6, <2>1 DEF FirstTypeOK
    <3>2. submitted' = submitted /\ assets' = assets
      BY <1>4
    <3>3. /\ Len(pending'["First"]) \in Nat /\ Len(pending'["Final"]) \in Nat
          /\ Len(pending'["First"]) + Len(pending'["Final"])
                 <= Len(pending["First"]) + Len(pending["Final"])
      BY <2>1
    <3>4. assets' + Len(pending'["First"]) + Len(pending'["Final"]) <= submitted'
      BY <1>0, <3>2, <3>3, SumBound, Zenon
    <3> QED
      BY <2>1, <3>1, <3>4 DEF FirstInv, NothingSavedTwice
  <2> QED
    BY <2>1
<1>9. CASE UNCHANGED <<pending, indexOf>>
  <2>1. pending' = pending /\ indexOf' = indexOf
    BY <1>9
  <2>2. NoContractPendingTwice'
    BY <1>1, <2>1 DEF NoContractPendingTwice
  <2>3. pending \in [Stages -> Seq(Tokens)] /\ indexOf \in [Stages -> [TokenIds -> Nat]]
    BY <1>1 DEF FirstTypeOK
  <2> QED
    BY <1>0, <2>1, <2>2, <2>3
<1>10. CASE /\ pending' = [First |-> left,
                           Final |-> Append(pending["Final"], At("First", id))]
            /\ indexOf' = [First |-> index, Final |-> entered]
  <2>1. NoContractPendingTwice'
    BY <1>1, <1>2, <1>10, MoveKeepsDisjoint
  <2>2. /\ Append(pending["Final"], At("First", id)) \in Seq(Tokens)
        /\ Len(Append(pending["Final"], At("First", id))) = Len(pending["Final"]) + 1
    BY <1>1, <1>2, StageNames, PendingTypes, AppendProperties
  <2> HIDE DEF left, index, entered
  <2>3. /\ pending' \in [Stages -> Seq(Tokens)]
        /\ indexOf' \in [Stages -> [TokenIds -> Nat]]
    <3> DEFINE final == Append(pending["Final"], At("First", id))
    <3>1. final \in Seq(Tokens)
      BY <2>2
    <3>2. pending' = [First |-> left, Final |-> final]
      BY <1>10
    <3> HIDE DEF final
    <3>3. pending' \in [Stages -> Seq(Tokens)]
      BY <1>3, <3>1, <3>2, PairOfStages, Zenon
    <3>4. indexOf' = [First |-> index, Final |-> entered]
      BY <1>10
    <3>5. indexOf' \in [Stages -> [TokenIds -> Nat]]
      BY <1>3, <3>4, PairOfStages, Zenon
    <3> QED
      BY <3>3, <3>5
  <2>4. /\ Len(pending'["First"]) = Len(pending["First"]) - 1
        /\ Len(pending'["Final"]) = Len(pending["Final"]) + 1
        /\ Len(pending["First"]) - 1 \in Nat
    <3>1. Len(left) \in Nat
      BY <1>3, LenProperties
    <3> QED
      BY <1>3, <1>10, <2>2, <3>1
  <2>5. Len(pending'["First"]) \in Nat /\ Len(pending'["Final"]) \in Nat
    BY <1>0, <2>4
  <2>6. Len(pending'["First"]) + Len(pending'["Final"])
            <= Len(pending["First"]) + Len(pending["Final"])
    BY <1>0, <2>4, <2>5, SumMoved, Zenon
  <2> QED
    BY <2>1, <2>3, <2>5, <2>6
<1>11. CASE /\ pending' = [pending EXCEPT !["First"] = left]
            /\ indexOf' = [indexOf EXCEPT !["First"] = index]
  <2>1. PICK origin : Picks("First", left, origin)
    BY <1>1, <1>2, StageNames, WithoutPicks
  <2>2. PICK same : Picks("Final", pending["Final"], same)
    BY <1>1, StageNames, SamePicks
  <2> HIDE DEF left, index, entered
  <2>3. /\ pending' \in [Stages -> Seq(Tokens)]
        /\ indexOf' \in [Stages -> [TokenIds -> Nat]]
        /\ pending'["First"] = left /\ pending'["Final"] = pending["Final"]
    BY <1>1, <1>3, <1>11, StageNames DEF FirstTypeOK
  <2>4. \A s \in Stages : \E f : Picks(s, pending'[s], f)
    BY <2>1, <2>2, <2>3, StageNames
  <2>5. NoContractPendingTwice'
    BY <1>1, <2>3, <2>4, RemovalKeepsDisjoint
  <2>6. Len(left) \in Nat
    BY <1>3, LenProperties
  <2> QED
    BY <1>0, <1>3, <2>3, <2>5, <2>6
<1> QED
  BY <1>5, <1>9, <1>10, <1>11

(* The steps that only take tokens out of the arrays. *)
LEMMA RemovalPreserves ==
    ASSUME FirstTypeOK, NoContractPendingTwice, NEW stage \in Stages,
           NEW p \in Nat, p < Len(pending[stage]),
           pending' = [pending EXCEPT ![stage] = PendingWithout(stage, p)],
           indexOf' = [indexOf EXCEPT ![stage] = IndexWithout(stage, p)]
    PROVE  /\ pending' \in [Stages -> Seq(Tokens)]
           /\ indexOf' \in [Stages -> [TokenIds -> Nat]]
           /\ NoContractPendingTwice'
           /\ Len(pending'[stage]) = Len(pending[stage]) - 1
           /\ \A s \in Stages : s # stage => pending'[s] = pending[s]
<1> DEFINE left == PendingWithout(stage, p)
           index == IndexWithout(stage, p)
<1>1. /\ left \in Seq(Tokens) /\ Len(left) = Len(pending[stage]) - 1
      /\ index \in [TokenIds -> Nat]
  BY PendingWithoutProperties, IndexWithoutProperties
<1>2. PICK origin : Picks(stage, left, origin)
  BY WithoutPicks
<1>3. /\ pending' = [pending EXCEPT ![stage] = left]
      /\ indexOf' = [indexOf EXCEPT ![stage] = index]
  OBVIOUS
<1> HIDE DEF left, index
<1>4. /\ pending \in [Stages -> Seq(Tokens)]
      /\ indexOf \in [Stages -> [TokenIds -> Nat]]
  BY DEF FirstTypeOK
<1>5. /\ pending' \in [Stages -> Seq(Tokens)]
      /\ indexOf' \in [Stages -> [TokenIds -> Nat]]
      /\ pending'[stage] = left
      /\ \A s \in Stages : s # stage => pending'[s] = pending[s]
  BY <1>1, <1>3, <1>4
<1>6. ASSUME NEW s \in Stages
      PROVE  \E f : Picks(s, pending'[s], f)
  <2>1. CASE s = stage
    BY <1>2, <1>5, <2>1
  <2>2. CASE s # stage
    BY <1>5, <2>2, SamePicks
  <2> QED
    BY <2>1, <2>2
<1>7. NoContractPendingTwice'
  BY <1>5, <1>6, RemovalKeepsDisjoint
<1> QED
  BY <1>1, <1>5, <1>7

LEMMA OneMore == \A a, b, c, x, y \in Nat :
    x + a + b <= y /\ c = b - 1 => x + a + c <= y /\ x + 1 + a + c <= y
OBVIOUS

LEMMA FinalDecisionVotePreserves ==
    ASSUME FirstInv, NEW u \in Users, NEW id \in TokenIds, NEW validate \in BOOLEAN,
           finalDecisionVote(u, id, validate)
    PROVE  FirstInv'
<1> DEFINE p == indexOf["Final"][id]
<1>1. FirstTypeOK /\ NoContractPendingTwice
  BY DEF FirstInv
<1>2. /\ CastVote("Final", u, id, validate)
      /\ Found("Final", id)
      /\ UNCHANGED <<submitted, paidRewards, mobl, rank, promoteVotes, demoteVotes,
                     members, now>>
  BY DEF finalDecisionVote, rankVars
<1>3. \/ /\ voted' = Marked("Final", u, id)
         /\ UNCHANGED <<pending, indexOf, assets, good, bad, owedRewards>>
      \/ /\ voted' = Unmarked(Marked("Final", u, id), id)
         /\ Verdict(id)
  BY DEF finalDecisionVote
<1>4. /\ onRecord' \in [Stages -> [BOOLEAN -> [TokenIds -> Seq(Users)]]]
      /\ Marked("Final", u, id) \in [Stages -> [Users -> [TokenIds -> BOOLEAN]]]
  BY <1>1, <1>2, StageNames, CastVoteTypes, MarkedTypes
<1>6. CASE /\ voted' = Marked("Final", u, id)
           /\ UNCHANGED <<pending, indexOf, assets, good, bad, owedRewards>>
  <2>1. FirstTypeOK'
    BY <1>1, <1>2, <1>4, <1>6 DEF FirstTypeOK
  <2>2. NoContractPendingTwice'
    BY <1>1, <1>6 DEF NoContractPendingTwice
  <2>3. NothingSavedTwice'
    BY <1>2, <1>6 DEF FirstInv, NothingSavedTwice
  <2> QED
    BY <2>1, <2>2, <2>3 DEF FirstInv
<1>7. CASE /\ voted' = Unmarked(Marked("Final", u, id), id)
           /\ Verdict(id)
  <2> DEFINE verdict == Validated("Final", id)
  <2>boolean. verdict \in BOOLEAN
    BY DEF Validated
  <2>1. /\ HasReceivers(id, verdict)
        /\ assets' = IF verdict THEN assets + 1 ELSE assets
        /\ pending' = [pending EXCEPT !["Final"] = PendingWithout("Final", p)]
        /\ indexOf' = [indexOf EXCEPT !["Final"] = IndexWithout("Final", p)]
    BY <1>7, Zenon DEF Verdict
  <2>2. /\ good' = [s \in Stages |-> [w \in Users |->
                       good[s][w] + Times(w, onRecord'[s][verdict][id])]]
        /\ bad' = [s \in Stages |-> [w \in Users |->
                       bad[s][w] + Times(w, onRecord'[s][~verdict][id])]]
    BY <1>7 DEF Verdict
  <2>3. owedRewards' = [w \in Users |-> owedRewards[w] +
                           At("Final", id).coeff * Rewarded(w, id, verdict)]
    BY <1>7 DEF Verdict
  <2>4. /\ p \in Nat /\ p < Len(pending["Final"])
        /\ At("Final", id).coeff \in Nat
    BY <1>1, <1>2, StageNames, FoundToken, CoeffsNat DEF Tokens
  <2>5. voted' \in [Stages -> [Users -> [TokenIds -> BOOLEAN]]]
    BY <1>4, <1>7, UnmarkedTypes
  <2> HIDE DEF p, verdict
  <2>6. /\ pending' \in [Stages -> Seq(Tokens)]
        /\ indexOf' \in [Stages -> [TokenIds -> Nat]]
        /\ NoContractPendingTwice'
        /\ Len(pending'["Final"]) = Len(pending["Final"]) - 1
        /\ pending'["First"] = pending["First"]
    <3>1. "First" # "Final"
      OBVIOUS
    <3> QED
      BY <1>1, <2>1, <2>4, <3>1, StageNames, RemovalPreserves DEF p
  <2>7. (~verdict) \in BOOLEAN
    OBVIOUS
  <2>8. good \in [Stages -> [Users -> Nat]] /\ bad \in [Stages -> [Users -> Nat]]
    BY <1>1 DEF FirstTypeOK
  <2>9. good' \in [Stages -> [Users -> Nat]] /\ bad' \in [Stages -> [Users -> Nat]]
    <3> DEFINE right == [s \in Stages |-> [w \in Users |->
                            good[s][w] + Times(w, onRecord'[s][verdict][id])]]
               wrong == [s \in Stages |-> [w \in Users |->
                            bad[s][w] + Times(w, onRecord'[s][~verdict][id])]]
    <3>1. right \in [Stages -> [Users -> Nat]]
      <4>1. ASSUME NEW s \in Stages, NEW w \in Users
            PROVE  good[s][w] + Times(w, onRecord'[s][verdict][id]) \in Nat
        <5>1. Times(w, onRecord'[s][verdict][id]) \in Nat
          BY <1>4, <2>boolean, TimesOnRecordNat
        <5>2. good[s][w] \in Nat
          BY <2>8
        <5> QED
          BY <5>1, <5>2
      <4> QED
        BY <4>1
    <3>2. wrong \in [Stages -> [Users -> Nat]]
      <4>1. ASSUME NEW s \in Stages, NEW w \in Users
            PROVE  bad[s][w] + Times(w, onRecord'[s][~verdict][id]) \in Nat
        <5>1. Times(w, onRecord'[s][~verdict][id]) \in Nat
          BY <1>4, <2>7, TimesOnRecordNat
        <5>2. bad[s][w] \in Nat
          BY <2>8
        <5> QED
          BY <5>1, <5>2
      <4> QED
        BY <4>1
    <3>3. good' = right /\ bad' = wrong
      BY <2>2, Zenon
    <3> HIDE DEF right, wrong
    <3> QED
      BY <3>1, <3>2, <3>3
  <2>10. owedRewards' \in [Users -> Nat]
    <3>1. ASSUME NEW w \in Users
          PROVE  owedRewards[w] + At("Final", id).coeff * Rewarded(w, id, verdict) \in Nat
      <4>1. Rewarded(w, id, verdict) \in Nat
        BY <1>4, <2>boolean, <2>1, RewardedNat
      <4>2. At("Final", id).coeff * Rewarded(w, id, verdict) \in Nat
        BY <2>4, <4>1, ProductNat
      <4>3. owedRewards[w] \in Nat
        BY <1>1 DEF FirstTypeOK
      <4> QED
        BY <4>2, <4>3
    <3> QED
      BY <2>3, <3>1
  <2>11. assets' \in Nat
    BY <2>1, CountTypes
  <2>12. FirstTypeOK'
    BY <1>1, <1>2, <1>4, <2>5, <2>6, <2>9, <2>10, <2>11 DEF FirstTypeOK
  <2>13. NothingSavedTwice'
    <3>1. Len(pending'["Final"]) \in Nat
      BY <2>6, StageNames, LenProperties
    <3>2. /\ submitted \in Nat /\ assets \in Nat
          /\ Len(pending["First"]) \in Nat /\ Len(pending["Final"]) \in Nat
          /\ assets + Len(pending["First"]) + Len(pending["Final"]) <= submitted
      BY CountTypes
    <3>3. /\ assets + Len(pending["First"]) + Len(pending'["Final"]) <= submitted
          /\ assets + 1 + Len(pending["First"]) + Len(pending'["Final"]) <= submitted
      BY <2>6, <3>1, <3>2, OneMore, Zenon
    <3>4. assets' + Len(pending["First"]) + Len(pending'["Final"]) <= submitted
      BY <2>1, <3>3
    <3>5. submitted' = submitted
      BY <1>2
    <3> QED
      BY <2>6, <3>4, <3>5 DEF NothingSavedTwice
  <2> QED
    BY <2>6, <2>12, <2>13 DEF FirstInv
<1> QED
  BY <1>3, <1>6, <1>7

LEMMA ClaimPreserves ==
    ASSUME FirstInv, NEW u \in Users, claimRewards(u)
    PROVE  FirstInv'
<1> DEFINE amount == (owedRewards[u] - paidRewards[u]) * tokensPerVote
<1>1. FirstTypeOK
  BY DEF FirstInv
<1>2. /\ amount > 0
      /\ mobl >= amount \div 1000
      /\ paidRewards' = [paidRewards EXCEPT ![u] = owedRewards[u]]
      /\ mobl' = mobl - amount \div 1000
      /\ UNCHANGED <<submitted, pending, indexOf, assets, voted, onRecord, good, bad,
                     owedRewards, rank, promoteVotes, demoteVotes, members, now>>
  BY DEF claimRewards, tokenVars, voteVars, rankVars
<1>3. /\ owedRewards[u] \in Nat /\ paidRewards[u] \in Nat /\ mobl \in Nat
      /\ tokensPerVote \in Nat
  BY <1>1, FirstProtocolAssumption DEF FirstTypeOK
<1>4. mobl' \in Nat
  <2>1. amount \in Int
    BY <1>3
  <2> HIDE DEF amount
  <2>2. amount \in Nat
    BY <1>2, <2>1
  <2>3. amount \div 1000 \in Nat
    BY <2>2, QuotientNat
  <2> QED
    BY <1>2, <1>3, <2>3
<1>5. FirstTypeOK'
  BY <1>1, <1>2, <1>3, <1>4 DEF FirstTypeOK
<1>6. NoContractPendingTwice' /\ NothingSavedTwice'
  BY <1>2 DEF FirstInv, NoContractPendingTwice, NothingSavedTwice
<1> QED
  BY <1>5, <1>6 DEF FirstInv

LEMMA FewerKept == \A a, b, c, d, x, y \in Nat :
    x + a + b <= y /\ c <= a /\ d <= b => x + c + d <= y
OBVIOUS

LEMMA KillPreserves ==
    ASSUME FirstInv, NEW id \in TokenIds, emergencyKillRequest(id)
    PROVE  FirstInv'
<1> DEFINE P(s) == (CHOOSE i \in Killed(s, id) : TRUE) - 1
<1>1. FirstTypeOK /\ NoContractPendingTwice
  BY DEF FirstInv
<1>2. /\ pending' = [s \in Stages |-> IF Killed(s, id) = {} THEN pending[s]
                                      ELSE PendingWithout(s, P(s))]
      /\ indexOf' = [s \in Stages |-> IF Killed(s, id) = {} THEN indexOf[s]
                                      ELSE IndexWithout(s, P(s))]
      /\ UNCHANGED <<submitted, assets, voted, onRecord, good, bad, owedRewards,
                     paidRewards, mobl, rank, promoteVotes, demoteVotes, members, now>>
  BY DEF emergencyKillRequest, voteVars, rewardVars, rankVars
<1>3. ASSUME NEW s \in Stages, Killed(s, id) # {}
      PROVE  P(s) \in Nat /\ P(s) < Len(pending[s])
  <2>1. (CHOOSE i \in Killed(s, id) : TRUE) \in Killed(s, id)
    BY <1>3
  <2>2. (CHOOSE i \in Killed(s, id) : TRUE) \in 1..Len(pending[s])
    BY <1>1, <2>1, PendingTypes DEF Killed
  <2> QED
    BY <1>1, <2>2, PendingTypes
<1> HIDE DEF P
<1>4. ASSUME NEW s \in Stages
      PROVE  /\ pending'[s] \in Seq(Tokens)
             /\ indexOf'[s] \in [TokenIds -> Nat]
             /\ Len(pending'[s]) \in Nat /\ Len(pending'[s]) <= Len(pending[s])
             /\ \E f : Picks(s, pending'[s], f)
  <2>1. CASE Killed(s, id) = {}
    <3>1. pending'[s] = pending[s] /\ indexOf'[s] = indexOf[s]
      BY <1>2, <2>1
    <3>2. \E f : Picks(s, pending[s], f)
      BY <1>1, SamePicks
    <3> QED
      BY <1>1, <3>1, <3>2, PendingTypes
  <2>2. CASE Killed(s, id) # {}
    <3>1. /\ pending'[s] = PendingWithout(s, P(s))
          /\ indexOf'[s] = IndexWithout(s, P(s))
      BY <1>2, <2>2
    <3>2. P(s) \in Nat /\ P(s) < Len(pending[s]) /\ Len(pending[s]) \in Nat
      BY <1>1, <1>3, <2>2, PendingTypes
    <3>3. \E f : Picks(s, PendingWithout(s, P(s)), f)
      BY <1>1, <3>2, WithoutPicks
    <3>4. /\ PendingWithout(s, P(s)) \in Seq(Tokens)
          /\ Len(PendingWithout(s, P(s))) = Len(pending[s]) - 1
      BY <1>1, <3>2, PendingWithoutProperties
    <3>5. IndexWithout(s, P(s)) \in [TokenIds -> Nat]
      BY <1>1, <3>2, IndexWithoutProperties
    <3>6. Len(pending'[s]) \in Nat /\ Len(pending'[s]) = Len(pending[s]) - 1
      BY <3>1, <3>4, LenProperties
    <3> QED
      BY <3>1, <3>2, <3>3, <3>4, <3>5, <3>6
  <2> QED
    BY <2>1, <2>2
<1>5. pending' \in [Stages -> Seq(Tokens)] /\ indexOf' \in [Stages -> [TokenIds -> Nat]]
  <2>1. \A s \in Stages : pending'[s] \in Seq(Tokens)
    BY <1>4
  <2>2. \A s \in Stages : indexOf'[s] \in [TokenIds -> Nat]
    BY <1>4
  <2>3. /\ pending' = [s \in Stages |-> pending'[s]]
        /\ indexOf' = [s \in Stages |-> indexOf'[s]]
    BY <1>2
  <2> QED
    BY <2>1, <2>2, <2>3
<1>6. NoContractPendingTwice'
  BY <1>1, <1>4, <1>5, RemovalKeepsDisjoint
<1>7. NothingSavedTwice'
  <2>1. /\ submitted \in Nat /\ assets \in Nat
        /\ Len(pending["First"]) \in Nat /\ Len(pending["Final"]) \in Nat
        /\ assets + Len(pending["First"]) + Len(pending["Final"]) <= submitted
    BY CountTypes
  <2>2. /\ Len(pending'["First"]) \in Nat
        /\ Len(pending'["First"]) <= Len(pending["First"])
        /\ Len(pending'["Final"]) \in Nat
        /\ Len(pending'["Final"]) <= Len(pending["Final"])
    BY <1>4, StageNames
  <2>3. assets + Len(pending'["First"]) + Len(pending'["Final"]) <= submitted
    BY <2>1, <2>2, FewerKept, Zenon
  <2>4. assets' = assets /\ submitted' = submitted
    BY <1>2
  <2> QED
    BY <2>3, <2>4 DEF NothingSavedTwice
<1>8. FirstTypeOK'
  BY <1>1, <1>2, <1>5 DEF FirstTypeOK
<1> QED
  BY <1>6, <1>7, <1>8 DEF FirstInv

(* The hierarchy leaves the tokens alone. *)
LEMMA RankStepPreserves ==
    ASSUME FirstInv,
           UNCHANGED <<submitted, pending, indexOf, assets, voted, onRecord, good, bad,
                       owedRewards, paidRewards, mobl, now>>,
           rank' \in [Users -> 0..2],
           promoteVotes' \in [Users -> Nat], demoteVotes' \in [Users -> Nat],
           members' \in [RankChanges -> Nat]
    PROVE  FirstInv'
<1>1. FirstTypeOK'
  BY DEF FirstInv, FirstTypeOK
<1>2. NoContractPendingTwice' /\ NothingSavedTwice'
  BY DEF FirstInv, NoContractPendingTwice, NothingSavedTwice
<1> QED
  BY <1>1, <1>2 DEF FirstInv

LEMMA PromotePreserves ==
    ASSUME FirstInv, NEW u \in Users, NEW promoted \in Users, promote(u, promoted)
    PROVE  FirstInv'
<1> DEFINE change == Promotion(promoted)
           tally == promoteVotes[promoted] + 1
<1>1. /\ rank \in [Users -> 0..2] /\ promoteVotes \in [Users -> Nat]
      /\ demoteVotes \in [Users -> Nat] /\ members \in [RankChanges -> Nat]
  BY DEF FirstInv, FirstTypeOK
<1>2. /\ rank[promoted] <= 1
      /\ HasQuota(change)
      /\ UNCHANGED <<submitted, pending, indexOf, assets, voted, onRecord, good, bad,
                     owedRewards, paidRewards, mobl, now, demoteVotes>>
  BY DEF promote, tokenVars, voteVars, rewardVars
<1>3. \/ /\ members' = [members EXCEPT ![change] = @ - 1]
         /\ promoteVotes' = [promoteVotes EXCEPT ![promoted] = 0]
         /\ rank' = [rank EXCEPT ![promoted] = @ + 1]
      \/ /\ promoteVotes' = [promoteVotes EXCEPT ![promoted] = tally]
         /\ UNCHANGED <<members, rank>>
  BY DEF promote
<1>4. change \in RankChanges
  BY DEF Promotion, RankChanges
<1> HIDE DEF change
<1>5. members[change] - 1 \in Nat /\ rank[promoted] + 1 \in 0..2 /\ tally \in Nat
  BY <1>1, <1>2, <1>4 DEF HasQuota
<1> HIDE DEF tally
<1>6. /\ rank' \in [Users -> 0..2] /\ promoteVotes' \in [Users -> Nat]
      /\ demoteVotes' \in [Users -> Nat] /\ members' \in [RankChanges -> Nat]
  BY <1>1, <1>2, <1>3, <1>5
<1> QED
  BY <1>2, <1>6, RankStepPreserves

LEMMA DemotePreserves ==
    ASSUME FirstInv, NEW u \in Users, NEW demoted \in Users, demote(u, demoted)
    PROVE  FirstInv'
<1> DEFINE tally == demoteVotes[demoted] + 1
<1>1. /\ rank \in [Users -> 0..2] /\ promoteVotes \in [Users -> Nat]
      /\ demoteVotes \in [Users -> Nat] /\ members \in [RankChanges -> Nat]
  BY DEF FirstInv, FirstTypeOK
<1>2. /\ rank[demoted] >= 1
      /\ members["FromRankII"] > 0
      /\ UNCHANGED <<submitted, pending, indexOf, assets, voted, onRecord, good, bad,
                     owedRewards, paidRewards, mobl, now, promoteVotes>>
  BY DEF demote, Demotion, HasQuota, tokenVars, voteVars, rewardVars
<1>3. \/ /\ members' = [members EXCEPT !["FromRankII"] = @ - 1]
         /\ demoteVotes' = [demoteVotes EXCEPT ![demoted] = 0]
         /\ rank' = [rank EXCEPT ![demoted] = @ - 1]
      \/ /\ demoteVotes' = [demoteVotes EXCEPT ![demoted] = tally]
         /\ UNCHANGED <<members, rank>>
  BY DEF demote, Demotion
<1>4. "FromRankII" \in RankChanges
  BY DEF RankChanges
<1>5. /\ members["FromRankII"] - 1 \in Nat /\ rank[demoted] - 1 \in 0..2
      /\ tally \in Nat
  BY <1>1, <1>2, <1>4
<1> HIDE DEF tally
<1>6. /\ rank' \in [Users -> 0..2] /\ promoteVotes' \in [Users -> Nat]
      /\ demoteVotes' \in [Users -> Nat] /\ members' \in [RankChanges -> Nat]
  BY <1>1, <1>2, <1>3, <1>5
<1> QED
  BY <1>2, <1>6, RankStepPreserves

LEMMA EmergencyPreserves ==
    ASSUME FirstInv, NEW u \in Users, emergencyPromote(u) \/ emergencyDemote(u)
    PROVE  FirstInv'
<1>1. /\ rank \in [Users -> 0..2] /\ promoteVotes \in [Users -> Nat]
      /\ demoteVotes \in [Users -> Nat] /\ members \in [RankChanges -> Nat]
  BY DEF FirstInv, FirstTypeOK
<1>2. UNCHANGED <<submitted, pending, indexOf, assets, voted, onRecord, good, bad,
                  owedRewards, paidRewards, mobl, now, promoteVotes, demoteVotes,
                  members>>
  BY DEF emergencyPromote, emergencyDemote, tokenVars, voteVars, rewardVars
<1>3. \/ rank[u] <= 1 /\ rank' = [rank EXCEPT ![u] = rank[u] + 1]
      \/ rank[u] >= 1 /\ rank' = [rank EXCEPT ![u] = rank[u] - 1]
  BY DEF emergencyPromote, emergencyDemote
<1>4. rank' \in [Users -> 0..2]
  BY <1>1, <1>3
<1> QED
  BY <1>1, <1>2, <1>4, RankStepPreserves

LEMMA FirstInitInv == FirstInit => FirstInv
<1> SUFFICES ASSUME FirstInit
             PROVE  FirstInv
  OBVIOUS
<1>1. submitted = 0 /\ assets = 0 /\ now = 1 /\ mobl = InitialMobl
  BY DEF FirstInit
<1>2. <<>> \in Seq(Tokens) /\ <<>> \in Seq(Users) /\ Len(<<>>) = 0 /\ DOMAIN <<>> = {}
  BY EmptySeq
<1>3. /\ pending \in [Stages -> Seq(Tokens)]
      /\ \A s \in Stages : pending[s] = <<>>
  BY <1>2 DEF FirstInit
<1>4. indexOf \in [Stages -> [TokenIds -> Nat]]
  BY DEF FirstInit
<1>5. voted \in [Stages -> [Users -> [TokenIds -> BOOLEAN]]]
  BY DEF FirstInit
<1>6. onRecord \in [Stages -> [BOOLEAN -> [TokenIds -> Seq(Users)]]]
  BY <1>2 DEF FirstInit
<1>7. Zero \in [Users -> Nat]
  BY DEF Zero
<1>8. /\ good \in [Stages -> [Users -> Nat]] /\ bad \in [Stages -> [Users -> Nat]]
      /\ owedRewards \in [Users -> Nat] /\ paidRewards \in [Users -> Nat]
      /\ promoteVotes \in [Users -> Nat] /\ demoteVotes \in [Users -> Nat]
  BY <1>7 DEF FirstInit
<1>9. rank \in [Users -> 0..2] /\ members \in [RankChanges -> Nat]
  BY FirstProtocolAssumption DEF FirstInit
<1>10. FirstTypeOK
  <2>1. submitted \in 0..MaxSubmissions /\ assets \in Nat /\ now \in Nat /\ mobl \in Nat
    BY <1>1, FirstProtocolAssumption
  <2> QED
    BY <1>3, <1>4, <1>5, <1>6, <1>8, <1>9, <2>1 DEF FirstTypeOK
<1>11. NoContractPendingTwice
  BY <1>2, <1>3 DEF NoContractPendingTwice
<1>12. NothingSavedTwice
  BY <1>1, <1>2, <1>3, StageNames DEF NothingSavedTwice
<1> QED
  BY <1>10, <1>11, <1>12 DEF FirstInv

LEMMA FirstNextInv == FirstInv /\ [FirstNext]_firstVars => FirstInv'
<1> SUFFICES ASSUME FirstInv, [FirstNext]_firstVars
             PROVE  FirstInv'
  OBVIOUS
<1>1. CASE SubmitterStep
  BY <1>1, SubmitPreserves DEF SubmitterStep
<1>2. CASE VoterStep
  <2>1. PICK u \in Users :
           \/ \E id \in TokenIds, validate \in BOOLEAN :
                 firstSortVote(u, id, validate) \/ finalDecisionVote(u, id, validate)
           \/ claimRewards(u)
           \/ \E w \in RankMovers : promote(u, w) \/ demote(u, w)
    BY <1>2 DEF VoterStep
  <2>2. RankMovers \subseteq Users
    BY FirstProtocolAssumption
  <2> QED
    BY <2>1, <2>2, FirstSortVotePreserves, FinalDecisionVotePreserves,
       ClaimPreserves, PromotePreserves, DemotePreserves
<1>3. CASE OwnerStep
  <2>1. RankMovers \subseteq Users
    BY FirstProtocolAssumption
  <2> QED
    BY <1>3, <2>1, KillPreserves, EmergencyPreserves DEF OwnerStep
<1>4. CASE Tick
  <2>1. UNCHANGED <<submitted, pending, indexOf, assets, voted, onRecord, good, bad,
                    owedRewards, paidRewards, mobl, rank, promoteVotes, demoteVotes,
                    members>>
    BY <1>4 DEF Tick, tokenVars, voteVars, rewardVars, rankVars
  <2>2. now' \in Nat
    BY <1>4 DEF Tick, FirstInv, FirstTypeOK
  <2>3. FirstTypeOK'
    BY <2>1, <2>2 DEF FirstInv, FirstTypeOK
  <2> QED
    BY <2>1, <2>3 DEF FirstInv, NoContractPendingTwice, NothingSavedTwice
<1>5. CASE UNCHANGED firstVars
  <2>1. UNCHANGED <<submitted, pending, indexOf, assets, voted, onRecord, good, bad,
                    owedRewards, paidRewards, mobl, rank, promoteVotes, demoteVotes,
                    members, now>>
    BY <1>5 DEF firstVars, tokenVars, voteVars, rewardVars, rankVars
  <2>2. FirstTypeOK'
    BY <2>1 DEF FirstInv, FirstTypeOK
  <2> QED
    BY <2>1, <2>2 DEF FirstInv, NoContractPendingTwice, NothingSavedTwice
<1> QED
  BY <1>1, <1>2, <1>3, <1>4, <1>5 DEF FirstNext

-----------------------------------------------------------------------------
(* No step but a submission or a promotion to the final vote unsettles the  *)
(* indices of an array.                                                     *)
Settled(stage) ==
    \/ UNCHANGED <<pending[stage], indexOf[stage]>>
    \/ \E p \in Nat :
          /\ p < Len(pending[stage])
          /\ pending'[stage] = PendingWithout(stage, p)
          /\ indexOf'[stage] = IndexWithout(stage, p)

LEMMA SettledKeepsIndices ==
    ASSUME FirstTypeOK, NEW stage \in Stages, Settled(stage), Indexed(stage)
    PROVE  Indexed(stage)'
<1>1. CASE UNCHANGED <<pending[stage], indexOf[stage]>>
  BY <1>1 DEF Indexed
<1>2. CASE ~UNCHANGED <<pending[stage], indexOf[stage]>>
  <2>1. PICK p \in Nat :
           /\ p < Len(pending[stage])
           /\ pending'[stage] = PendingWithout(stage, p)
           /\ indexOf'[stage] = IndexWithout(stage, p)
    BY <1>2 DEF Settled
  <2> QED
    BY <2>1, RemovalKeepsIndices
<1> QED
  BY <1>1, <1>2

LEMMA SubmitKeepsIndices ==
    ASSUME FirstInv, NEW contracts \in SUBSET Contracts, NEW payment \in Payments,
           NEW assetId \in TokenIds, submitIPFS(contracts, payment, assetId)
    PROVE  /\ Indexed("First") /\ DistinctIds("First")' => Indexed("First")'
           /\ Settled("Final")
<1> DEFINE id == IF assetId = 0 THEN submitted ELSE assetId
           token == [id |-> id, contracts |-> contracts, lastUpdate |-> now,
                     coeff |-> Coeff(payment)]
           n == Len(pending["First"])
           positions == [indexOf["First"] EXCEPT ![id] = n]
<1>1. FirstTypeOK
  BY DEF FirstInv
<1>2. /\ pending' = [pending EXCEPT !["First"] = Append(pending["First"], token)]
      /\ submitted < MaxSubmissions
  BY DEF submitIPFS
<1>3. indexOf' = [indexOf EXCEPT !["First"] = positions]
  BY Zenon DEF submitIPFS
<1>4. id \in TokenIds
  BY <1>2, CountTypes, FirstProtocolAssumption DEF TokenIds
<1>5. /\ pending["First"] \in Seq(Tokens) /\ n \in Nat
      /\ indexOf["First"] \in [TokenIds -> Nat]
      /\ \A i \in 1..n : pending["First"][i].id \in TokenIds
  BY <1>1, StageNames, PendingTypes
<1>6. token.id = id
  OBVIOUS
<1>7. \A t \in TokenIds : positions[t] = IF t = id THEN n ELSE indexOf["First"][t]
  BY <1>5
<1> HIDE DEF id, token, positions
<1>8. /\ pending'["First"] = Append(pending["First"], token)
      /\ pending'["Final"] = pending["Final"]
      /\ indexOf'["First"] = positions
      /\ indexOf'["Final"] = indexOf["Final"]
  BY <1>1, <1>2, <1>3, StageNames DEF FirstTypeOK
<1>9. /\ Len(pending'["First"]) = n + 1
      /\ DOMAIN pending'["First"] = 1..(n + 1)
      /\ pending'["First"][n + 1] = token
      /\ \A i \in 1..n : pending'["First"][i] = pending["First"][i]
      /\ DOMAIN pending["First"] = 1..n
  BY <1>5, <1>8, AppendProperties, LenProperties
<1> HIDE DEF n
<1>10. ASSUME Indexed("First"), DistinctIds("First")', NEW i \in 1..(n + 1)
       PROVE  indexOf'["First"][pending'["First"][i].id] + 1 = i
  <2>1. CASE i = n + 1
    BY <1>4, <1>5, <1>6, <1>7, <1>8, <1>9, <2>1
  <2>2. CASE i # n + 1
    <3>1. i \in 1..n /\ n + 1 \in 1..(n + 1)
      BY <1>5, <2>2
    <3>2. /\ pending'["First"][i] = pending["First"][i]
          /\ indexOf["First"][pending["First"][i].id] + 1 = i
      BY <1>9, <1>10, <3>1 DEF Indexed
    <3>3. pending'["First"][i].id # pending'["First"][n + 1].id
      BY <1>9, <1>10, <2>2, <3>1 DEF DistinctIds
    <3>4. pending["First"][i].id # id
      BY <1>6, <1>9, <3>2, <3>3
    <3> QED
      BY <1>5, <1>7, <1>8, <3>1, <3>2, <3>4
  <2> QED
    BY <2>1, <2>2
<1>11. Indexed("First") /\ DistinctIds("First")' => Indexed("First")'
  BY <1>9, <1>10 DEF Indexed
<1> QED
  BY <1>8, <1>11 DEF Settled

LEMMA FirstSortVoteKeepsIndices ==
    ASSUME FirstInv, NEW u \in Users, NEW id \in TokenIds, NEW validate \in BOOLEAN,
           firstSortVote(u, id, validate)
    PROVE  /\ Settled("First")
           /\ Len(pending'["Final"]) <= Len(pending["Final"]) => Settled("Final")
<1> DEFINE p == indexOf["First"][id]
           left == PendingWithout("First", p)
           index == IndexWithout("First", p)
           entered == [indexOf["Final"] EXCEPT ![id] = Len(pending["Final"])]
<1>1. FirstTypeOK
  BY DEF FirstInv
<1>2. /\ p \in Nat /\ p < Len(pending["First"])
      /\ At("First", id) \in Tokens
  BY <1>1, StageNames, FoundToken DEF firstSortVote
<1>3. \/ UNCHANGED <<pending, indexOf>>
      \/ /\ pending' = [First |-> left,
                        Final |-> Append(pending["Final"], At("First", id))]
         /\ indexOf' = [First |-> index, Final |-> entered]
      \/ /\ pending' = [pending EXCEPT !["First"] = left]
         /\ indexOf' = [indexOf EXCEPT !["First"] = index]
  BY DEF firstSortVote
<1>4. CASE UNCHANGED <<pending, indexOf>>
  BY <1>4 DEF Settled
<1>5. CASE /\ pending' = [First |-> left,
                          Final |-> Append(pending["Final"], At("First", id))]
           /\ indexOf' = [First |-> index, Final |-> entered]
  <2>1. pending'["First"] = left /\ indexOf'["First"] = index
    BY <1>5
  <2>2. pending["Final"] \in Seq(Tokens) /\ Len(pending["Final"]) \in Nat
    BY <1>1, StageNames, PendingTypes
  <2>3. Len(pending'["Final"]) = Len(pending["Final"]) + 1
    BY <1>2, <1>5, <2>2, AppendProperties
  <2> QED
    BY <1>2, <2>1, <2>2, <2>3 DEF Settled
<1>6. CASE /\ pending' = [pending EXCEPT !["First"] = left]
           /\ indexOf' = [indexOf EXCEPT !["First"] = index]
  <2> HIDE DEF left, index
  <2>1. /\ pending'["First"] = left /\ indexOf'["First"] = index
        /\ UNCHANGED <<pending["Final"], indexOf["Final"]>>
    BY <1>1, <1>6, StageNames DEF FirstTypeOK
  <2> QED
    BY <1>2, <2>1 DEF Settled, left, index
<1> QED
  BY <1>3, <1>4, <1>5, <1>6

LEMMA FinalDecisionVoteKeepsIndices ==
    ASSUME FirstInv, NEW u \in Users, NEW id \in TokenIds, NEW validate \in BOOLEAN,
           finalDecisionVote(u, id, validate)
    PROVE  \A s \in Stages : Settled(s)
<1> DEFINE p == indexOf["Final"][id]
           left == PendingWithout("Final", p)
           index == IndexWithout("Final", p)
<1>1. FirstTypeOK
  BY DEF FirstInv
<1>2. p \in Nat /\ p < Len(pending["Final"])
  BY <1>1, StageNames, FoundToken DEF finalDecisionVote
<1>3. \/ UNCHANGED <<pending, indexOf>>
      \/ /\ pending' = [pending EXCEPT !["Final"] = left]
         /\ indexOf' = [indexOf EXCEPT !["Final"] = index]
  BY DEF finalDecisionVote, Verdict
<1>4. CASE UNCHANGED <<pending, indexOf>>
  BY <1>4 DEF Settled
<1>5. CASE /\ pending' = [pending EXCEPT !["Final"] = left]
           /\ indexOf' = [indexOf EXCEPT !["Final"] = index]
  <2> HIDE DEF left, index
  <2>1. /\ pending'["Final"] = left /\ indexOf'["Final"] = index
        /\ UNCHANGED <<pending["First"], indexOf["First"]>>
    BY <1>1, <1>5, StageNames DEF FirstTypeOK
  <2> QED
    BY <1>2, <2>1, StageNames DEF Settled, left, index
<1> QED
  BY <1>3, <1>4, <1>5

LEMMA KillKeepsIndices ==
    ASSUME FirstInv, NEW id \in TokenIds, emergencyKillRequest(id)
    PROVE  \A s \in Stages : Settled(s)
<1> SUFFICES ASSUME NEW s \in Stages
             PROVE  Settled(s)
  OBVIOUS
<1> DEFINE k == CHOOSE i \in Killed(s, id) : TRUE
<1>1. FirstTypeOK
  BY DEF FirstInv
<1>2. CASE Killed(s, id) = {}
  BY <1>2 DEF emergencyKillRequest, Settled
<1>3. CASE Killed(s, id) # {}
  <2>1. pending'[s] = PendingWithout(s, k - 1) /\ indexOf'[s] = IndexWithout(s, k - 1)
    BY <1>3 DEF emergencyKillRequest
  <2>2. k \in Killed(s, id)
    BY <1>3
  <2> HIDE DEF k
  <2>3. k \in 1..Len(pending[s]) /\ Len(pending[s]) \in Nat
    BY <1>1, <2>2, PendingTypes DEF Killed
  <2>4. k - 1 \in Nat /\ k - 1 < Len(pending[s])
    BY <2>3
  <2> QED
    BY <2>1, <2>4 DEF Settled
<1> QED
  BY <1>2, <1>3

LEMMA StepKeepsIndices ==
    ASSUME FirstInv, [FirstNext]_firstVars
    PROVE  /\ Indexed("First") /\ DistinctIds("First")' => Indexed("First")'
           /\ Indexed("Final") /\ Len(pending'["Final"]) <= Len(pending["Final"])
                 => Indexed("Final")'
<1>1. FirstTypeOK
  BY DEF FirstInv
<1>2. SUFFICES
        /\ Settled("First") \/ (Indexed("First") /\ DistinctIds("First")' => Indexed("First")')
        /\ Len(pending'["Final"]) <= Len(pending["Final"]) => Settled("Final")
  BY <1>1, StageNames, SettledKeepsIndices
<1>3. CASE SubmitterStep
  BY <1>3, SubmitKeepsIndices DEF SubmitterStep
<1>4. CASE VoterStep
  <2>1. PICK u \in Users :
           \/ \E id \in TokenIds, validate \in BOOLEAN :
                 firstSortVote(u, id, validate) \/ finalDecisionVote(u, id, validate)
           \/ claimRewards(u)
           \/ \E w \in RankMovers : promote(u, w) \/ demote(u, w)
    BY <1>4 DEF VoterStep
  <2>2. CASE \E id \in TokenIds, validate \in BOOLEAN :
                firstSortVote(u, id, validate) \/ finalDecisionVote(u, id, validate)
    BY <2>2, StageNames, FirstSortVoteKeepsIndices, FinalDecisionVoteKeepsIndices
  <2>3. CASE claimRewards(u) \/ \E w \in RankMovers : promote(u, w) \/ demote(u, w)
    <3>1. UNCHANGED <<pending, indexOf>>
      BY <2>3 DEF claimRewards, promote, demote, tokenVars
    <3> QED
      BY <3>1 DEF Settled
  <2> QED
    BY <2>1, <2>2, <2>3
<1>5. CASE OwnerStep
  <2>1. CASE \E id \in TokenIds : emergencyKillRequest(id)
    BY <2>1, StageNames, KillKeepsIndices
  <2>2. CASE \E u \in RankMovers : emergencyPromote(u) \/ emergencyDemote(u)
    <3>1. UNCHANGED <<pending, indexOf>>
      BY <2>2 DEF emergencyPromote, emergencyDemote, tokenVars
    <3> QED
      BY <3>1 DEF Settled
  <2> QED
    BY <1>5, <2>1, <2>2 DEF OwnerStep
<1>6. CASE Tick \/ UNCHANGED firstVars
  <2>1. UNCHANGED <<pending, indexOf>>
    BY <1>6 DEF Tick, firstVars, tokenVars
  <2> QED
    BY <2>1 DEF Settled
<1> QED
  BY <1>3, <1>4, <1>5, <1>6 DEF FirstNext

-----------------------------------------------------------------------------
(* Rewards and right votes *)

LEMMA TimesAddUp ==
    ASSUME IsFiniteSet(Users), NEW voters \in Seq(Users)
    PROVE  SumFunctionOnSet([u \in Users |-> Times(u, voters)], Users) = Len(voters)
<1>1. DOMAIN voters = 1..Len(voters) /\ Len(voters) \in Nat
  BY LenProperties
<1>2. \A i \in DOMAIN voters : voters[i] \in Users
  BY <1>1, ElementOfSeq
<1>3. IsFiniteSet(DOMAIN voters) /\ Cardinality(DOMAIN voters) = Len(voters)
  BY <1>1, FS_Interval
<1>4. [u \in Users |-> Times(u, voters)] =
      [u \in Users |-> Cardinality({i \in DOMAIN voters : voters[i] = u})]
  BY DEF Times
<1>5. SumFunctionOnSet([u \in Users |->
          Cardinality({i \in DOMAIN voters : voters[i] = u})], Users)
      = Cardinality(DOMAIN voters)
  BY <1>2, <1>3, SumOfCounts
<1> QED
  BY <1>3, <1>4, <1>5, Zenon

(* n votes more that were right, a coefficient more for each: both bounds   *)
(* hold with the least and the greatest coefficient so far.                 *)
LEMMA MoreRightVotes ==
    ASSUME NEW owed \in Nat, NEW right \in Nat, NEW c \in Coeffs, NEW n \in Nat,
           \E d \in Coeffs : owed >= d * right,
           \E d \in Coeffs : owed <= d * right
    PROVE  /\ \E d \in Coeffs : owed + c * n >= d * (right + n)
           /\ \E d \in Coeffs : owed + c * n <= d * (right + n)
<1>1. PICK low \in Coeffs : owed >= low * right
  OBVIOUS
<1>2. PICK high \in Coeffs : owed <= high * right
  OBVIOUS
<1>3. c \in Nat /\ low \in Nat /\ high \in Nat
  BY CoeffsNat
<1>4. \A d \in Nat : d * (right + n) = d * right + d * n
  OBVIOUS
<1>5. \A d, e, m \in Nat : d <= e => d * m <= e * m
  OBVIOUS
<1>6. \A d, m \in Nat : d * m \in Nat
  BY ProductNat
<1>7. \E d \in Coeffs : owed + c * n >= d * (right + n)
  <2>1. CASE low <= c
    <3>1. low * n <= c * n
      BY <1>3, <1>5, <2>1
    <3>2. owed + c * n >= low * right + low * n
      BY <1>1, <1>3, <1>6, <3>1
    <3> QED
      BY <1>3, <1>4, <3>2
  <2>2. CASE c <= low
    <3>1. c * right <= low * right
      BY <1>3, <1>5, <2>2
    <3>2. owed + c * n >= c * right + c * n
      BY <1>1, <1>3, <1>6, <3>1
    <3> QED
      BY <1>3, <1>4, <3>2
  <2> QED
    BY <1>3, <2>1, <2>2
<1>8. \E d \in Coeffs : owed + c * n <= d * (right + n)
  <2>1. CASE c <= high
    <3>1. c * n <= high * n
      BY <1>3, <1>5, <2>1
    <3>2. owed + c * n <= high * right + high * n
      BY <1>2, <1>3, <1>6, <3>1
    <3> QED
      BY <1>3, <1>4, <3>2
  <2>2. CASE high <= c
    <3>1. high * right <= c * right
      BY <1>3, <1>5, <2>2
    <3>2. owed + c * n <= c * right + c * n
      BY <1>2, <1>3, <1>6, <3>1
    <3> QED
      BY <1>3, <1>4, <3>2
  <2> QED
    BY <1>3, <2>1, <2>2
<1> QED
  BY <1>7, <1>8

LEMMA TalliesAddUp ==
    ASSUME FirstTypeOK, IsFiniteSet(Users)
    PROVE  RightVotes \in Nat /\ SumFunction(owedRewards) \in Nat
<1>1. /\ good["First"] \in [Users -> Nat] /\ good["Final"] \in [Users -> Nat]
      /\ owedRewards \in [Users -> Nat]
  BY StageNames DEF FirstTypeOK
<1>2. ASSUME NEW f \in [Users -> Nat]
      PROVE  SumFunction(f) = SumFunctionOnSet(f, Users) /\ SumFunction(f) \in Nat
  BY <1>2, SumNat DEF SumFunction
<1> QED
  BY <1>1, <1>2 DEF RightVotes

(* A verdict pays as many coefficients as it finds votes right: one for     *)
(* each first vote, two for each final one, since every right voter finds   *)
(* a receiver.                                                              *)
LEMMA VerdictPays ==
    ASSUME FirstTypeOK, IsFiniteSet(Users), NEW id \in TokenIds,
           At("Final", id).coeff \in Nat,
           onRecord' \in [Stages -> [BOOLEAN -> [TokenIds -> Seq(Users)]]],
           Verdict(id)
    PROVE  \E n \in Nat :
              /\ RightVotes' = RightVotes + n
              /\ SumFunction(owedRewards') =
                     SumFunction(owedRewards) + At("Final", id).coeff * n
<1> DEFINE verdict == Validated("Final", id)
           c == At("Final", id).coeff
           right(s) == onRecord'[s][verdict][id]
           receivers == onRecord'["First"][TRUE][id]
           paid(s) == SubSeq(receivers, 1, Len(right(s)))
           count(voters) == [u \in Users |-> Times(u, voters)]
           shared == [u \in Users |-> Rewarded(u, id, verdict)]
<1>1. verdict \in BOOLEAN
  BY DEF Validated
<1>2. /\ HasReceivers(id, verdict)
      /\ good' = [s \in Stages |-> [u \in Users |->
                     good[s][u] + Times(u, right(s))]]
      /\ owedRewards' = [u \in Users |-> owedRewards[u] + c * shared[u]]
  BY DEF Verdict
<1>3. \A s \in Stages : \A v \in BOOLEAN : onRecord'[s][v][id] \in Seq(Users)
  OBVIOUS
<1>4. /\ receivers \in Seq(Users)
      /\ \A s \in Stages : /\ right(s) \in Seq(Users)
                           /\ Len(right(s)) <= Len(receivers)
  BY <1>1, <1>2, <1>3, StageNames DEF HasReceivers
<1>5. \A u \in Users :
          shared[u] = count(paid("First"))[u] + 2 * count(paid("Final"))[u]
  BY Zenon DEF Rewarded
<1> HIDE DEF verdict, c, right, receivers
<1>6. ASSUME NEW s \in Stages
      PROVE  /\ Len(right(s)) \in Nat
             /\ paid(s) \in Seq(Users) /\ Len(paid(s)) = Len(right(s))
  <2>1. /\ Len(receivers) \in Nat /\ Len(right(s)) \in Nat
        /\ Len(right(s)) <= Len(receivers)
        /\ \A i \in 1..Len(receivers) : receivers[i] \in Users
    BY <1>4, LenProperties, ElementOfSeq
  <2>2. \A i \in 1..Len(right(s)) : receivers[i] \in Users
    BY <2>1
  <2> QED
    BY <1>4, <2>1, <2>2, SubSeqProperties
<1> HIDE DEF paid
<1>7. ASSUME NEW voters \in Seq(Users)
      PROVE  /\ SumFunctionOnSet(count(voters), Users) = Len(voters)
             /\ \A u \in Users : count(voters)[u] \in Int
  BY <1>7, TimesAddUp, TimesNat
<1>8. SumFunctionOnSet(shared, Users) = Len(right("First")) + 2 * Len(right("Final"))
      /\ \A u \in Users : shared[u] \in Int
  <2>1. \A s \in Stages : /\ \A u \in Users : count(paid(s))[u] \in Int
                          /\ SumFunctionOnSet(count(paid(s)), Users) = Len(right(s))
    BY <1>6, <1>7
  <2> HIDE DEF count, shared
  <2>2. ASSUME NEW u \in Users
        PROVE  /\ count(paid("First"))[u] \in Int /\ count(paid("Final"))[u] \in Int
               /\ shared[u] \in Int
    <3>1. count(paid("First"))[u] \in Int /\ count(paid("Final"))[u] \in Int
      BY <2>1, StageNames
    <3> QED
      BY <1>5, <3>1
  <2>3. SumFunctionOnSet(shared, Users) =
            SumFunctionOnSet(count(paid("First")), Users)
                + 2 * SumFunctionOnSet(count(paid("Final")), Users)
    BY <1>5, <2>2, SumLinear
  <2> QED
    BY <2>1, <2>2, <2>3, StageNames
<1>9. /\ good["First"] \in [Users -> Nat] /\ good["Final"] \in [Users -> Nat]
      /\ owedRewards \in [Users -> Nat]
  BY StageNames DEF FirstTypeOK
<1>10. ASSUME NEW s \in Stages
       PROVE  /\ SumFunction(good'[s]) = SumFunction(good[s]) + Len(right(s))
              /\ SumFunction(good[s]) \in Nat
  <2>1. good[s] \in [Users -> Nat]
    BY DEF FirstTypeOK
  <2>2. good'[s] = [u \in Users |-> good[s][u] + Times(u, right(s))]
    BY <1>2
  <2>3. \A u \in Users : count(right(s))[u] \in Int
    BY <1>4, <1>7
  <2>4. \A u \in Users : good[s][u] \in Int /\ good'[s][u] = good[s][u] + 1 * count(right(s))[u]
    BY <2>1, <2>2, <2>3
  <2>5. SumFunctionOnSet(count(right(s)), Users) = Len(right(s))
    BY <1>4, <1>7
  <2> HIDE DEF count
  <2>6. SumFunctionOnSet(good'[s], Users) =
            SumFunctionOnSet(good[s], Users) + 1 * SumFunctionOnSet(count(right(s)), Users)
    BY <2>3, <2>4, SumLinear
  <2>7. SumFunctionOnSet(good[s], Users) \in Nat
    BY <2>1, SumNat
  <2>8. DOMAIN good[s] = Users /\ DOMAIN good'[s] = Users
    BY <2>1, <2>2
  <2> QED
    BY <1>6, <2>5, <2>6, <2>7, <2>8 DEF SumFunction
<1>11. SumFunction(owedRewards') =
           SumFunction(owedRewards) + c * SumFunctionOnSet(shared, Users)
  <2>1. c \in Int
    BY DEF c
  <2>2. \A u \in Users : /\ owedRewards[u] \in Int /\ shared[u] \in Int
                         /\ owedRewards'[u] = owedRewards[u] + c * shared[u]
    BY <1>2, <1>8, <1>9
  <2>3. DOMAIN owedRewards = Users /\ DOMAIN owedRewards' = Users
    BY <1>2, <1>9
  <2> HIDE DEF shared
  <2>4. SumFunctionOnSet(owedRewards', Users) =
            SumFunctionOnSet(owedRewards, Users) + c * SumFunctionOnSet(shared, Users)
    <3>1. ASSUME NEW k \in Int,
                 \A u \in Users : owedRewards'[u] = owedRewards[u] + k * shared[u]
          PROVE  SumFunctionOnSet(owedRewards', Users) =
                     SumFunctionOnSet(owedRewards, Users)
                         + k * SumFunctionOnSet(shared, Users)
      BY <2>2, <3>1, SumLinear
    <3> QED
      BY <2>1, <2>2, <3>1, Zenon
  <2> QED
    BY <2>3, <2>4 DEF SumFunction
<1>12. RightVotes' = RightVotes + (Len(right("First")) + 2 * Len(right("Final")))
  <2>1. /\ RightVotes = SumFunction(good["First"]) + 2 * SumFunction(good["Final"])
        /\ RightVotes' = SumFunction(good'["First"]) + 2 * SumFunction(good'["Final"])
    BY DEF RightVotes
  <2>2. /\ SumFunction(good'["First"]) = SumFunction(good["First"]) + Len(right("First"))
        /\ SumFunction(good'["Final"]) = SumFunction(good["Final"]) + Len(right("Final"))
        /\ SumFunction(good["First"]) \in Nat /\ SumFunction(good["Final"]) \in Nat
        /\ Len(right("First")) \in Nat /\ Len(right("Final")) \in Nat
    BY <1>6, <1>10, StageNames
  <2>3. (SumFunction(good["First"]) + Len(right("First")))
            + 2 * (SumFunction(good["Final"]) + Len(right("Final")))
        = (SumFunction(good["First"]) + 2 * SumFunction(good["Final"]))
            + (Len(right("First")) + 2 * Len(right("Final")))
    <3> DEFINE a == SumFunction(good["First"])
               b == SumFunction(good["Final"])
               x == Len(right("First"))
               y == Len(right("Final"))
    <3>1. a \in Nat /\ b \in Nat /\ x \in Nat /\ y \in Nat
      BY <2>2
    <3> HIDE DEF a, b, x, y
    <3>2. (a + x) + 2 * (b + y) = (a + 2 * b) + (x + 2 * y)
      BY <3>1
    <3> QED
      BY <3>2, Zenon DEF a, b, x, y
  <2> QED
    BY <2>1, <2>2, <2>3, Zenon
<1>13. Len(right("First")) + 2 * Len(right("Final")) \in Nat
  BY <1>6, StageNames
<1> HIDE DEF shared
<1> QED
  BY <1>8, <1>11, <1>12, <1>13, Zenon DEF c

(* A verdict is the only step that rewards or judges anybody. *)
LEMMA NobodyJudged ==
    ASSUME FirstInv, [FirstNext]_firstVars
    PROVE  \/ UNCHANGED <<good, owedRewards>>
           \/ \E u \in Users, id \in TokenIds, validate \in BOOLEAN :
                  /\ finalDecisionVote(u, id, validate)
                  /\ Verdict(id)
<1>1. CASE SubmitterStep
  BY <1>1 DEF SubmitterStep, submitIPFS, rewardVars
<1>2. CASE VoterStep
  <2>1. PICK u \in Users :
           \/ \E id \in TokenIds, validate \in BOOLEAN :
                 firstSortVote(u, id, validate) \/ finalDecisionVote(u, id, validate)
           \/ claimRewards(u)
           \/ \E w \in RankMovers : promote(u, w) \/ demote(u, w)
    BY <1>2 DEF VoterStep
  <2>2. ASSUME NEW id \in TokenIds, NEW validate \in BOOLEAN,
               firstSortVote(u, id, validate)
        PROVE  UNCHANGED <<good, owedRewards>>
    BY <2>2 DEF firstSortVote, rewardVars
  <2>3. ASSUME NEW id \in TokenIds, NEW validate \in BOOLEAN,
               finalDecisionVote(u, id, validate)
        PROVE  UNCHANGED <<good, owedRewards>> \/ Verdict(id)
    BY <2>3 DEF finalDecisionVote
  <2>4. ASSUME claimRewards(u)
        PROVE  UNCHANGED <<good, owedRewards>>
    BY <2>4 DEF claimRewards
  <2>5. ASSUME NEW w \in RankMovers, promote(u, w) \/ demote(u, w)
        PROVE  UNCHANGED <<good, owedRewards>>
    BY <2>5 DEF promote, demote, rewardVars
  <2> QED
    BY <2>1, <2>2, <2>3, <2>4, <2>5
<1>3. CASE OwnerStep
  BY <1>3 DEF OwnerStep, emergencyKillRequest, emergencyPromote, emergencyDemote,
              rewardVars
<1>4. CASE Tick \/ UNCHANGED firstVars
  BY <1>4 DEF Tick, firstVars, rewardVars
<1> QED
  BY <1>1, <1>2, <1>3, <1>4 DEF FirstNext

LEMMA StepKeepsRewards ==
    ASSUME FirstInv, IsFiniteSet(Users), RewardsMatchGoodVotes,
           [FirstNext]_firstVars
    PROVE  RewardsMatchGoodVotes'
<1>1. FirstTypeOK
  BY DEF FirstInv
<1>2. CASE UNCHANGED <<good, owedRewards>>
  BY <1>2 DEF RewardsMatchGoodVotes, RightVotes
<1>3. ASSUME NEW u \in Users, NEW id \in TokenIds, NEW validate \in BOOLEAN,
             finalDecisionVote(u, id, validate), Verdict(id)
      PROVE  RewardsMatchGoodVotes'
  <2> DEFINE c == At("Final", id).coeff
  <2>1. Found("Final", id) /\ CastVote("Final", u, id, validate)
    BY <1>3 DEF finalDecisionVote
  <2>2. onRecord' \in [Stages -> [BOOLEAN -> [TokenIds -> Seq(Users)]]]
    BY <1>1, <2>1, StageNames, CastVoteTypes
  <2>3. c \in Coeffs /\ c \in Nat
    BY <1>1, <2>1, StageNames, FoundToken, CoeffsNat DEF Tokens
  <2>4. PICK n \in Nat :
           /\ RightVotes' = RightVotes + n
           /\ SumFunction(owedRewards') = SumFunction(owedRewards) + c * n
    BY <1>1, <1>3, <2>2, <2>3, VerdictPays
  <2>5. RightVotes \in Nat /\ SumFunction(owedRewards) \in Nat
    BY <1>1, TalliesAddUp
  <2> HIDE DEF c
  <2>6. /\ \E d \in Coeffs : SumFunction(owedRewards) + c * n >= d * (RightVotes + n)
        /\ \E d \in Coeffs : SumFunction(owedRewards) + c * n <= d * (RightVotes + n)
    <3>1. /\ \E d \in Coeffs : SumFunction(owedRewards) >= d * RightVotes
          /\ \E d \in Coeffs : SumFunction(owedRewards) <= d * RightVotes
      BY DEF RewardsMatchGoodVotes
    <3> QED
      BY <2>3, <2>5, <3>1, MoreRightVotes
  <2> QED
    BY <2>4, <2>6 DEF RewardsMatchGoodVotes
<1> QED
  BY <1>2, <1>3, NobodyJudged

LEMMA InitRewards ==
    ASSUME FirstInit, IsFiniteSet(Users), Coeffs # {}
    PROVE  RewardsMatchGoodVotes
<1>1. \A u \in Users : Zero[u] = 0
  BY DEF Zero
<1>2. SumFunction(Zero) = 0
  <2>1. SumFunctionOnSet(Zero, Users) = 0
    BY <1>1, SumZero
  <2>2. DOMAIN Zero = Users
    BY DEF Zero
  <2> QED
    BY <2>1, <2>2 DEF SumFunction
<1>3. good["First"] = Zero /\ good["Final"] = Zero /\ owedRewards = Zero
  BY StageNames DEF FirstInit
<1>4. RightVotes = 0 /\ SumFunction(owedRewards) = 0
  BY <1>2, <1>3 DEF RightVotes
<1>5. PICK c \in Coeffs : TRUE
  OBVIOUS
<1>6. c \in Nat /\ c * 0 = 0
  BY CoeffsNat
<1> QED
  BY <1>4, <1>6 DEF RewardsMatchGoodVotes

-----------------------------------------------------------------------------
(* The results *)

(* The first protocol keeps its types, lists no contract twice, saves no    *)
(* submission twice and lets no demotion tally pass its threshold, whatever *)
(* stale index a call goes through.                                         *)
THEOREM FirstProtocolIsSound == FirstSpec => []FirstInv
<1> QED
  BY FirstInitInv, FirstNextInv, PTL DEF FirstSpec

(* Every variable of the contract keeps its type. *)
THEOREM FirstTypes == FirstSpec => []FirstTypeOK
<1>1. FirstInv => FirstTypeOK
  BY DEF FirstInv
<1> QED
  BY <1>1, FirstProtocolIsSound, PTL

(* A contract is listed once over both arrays. *)
THEOREM NoContractTwice == FirstSpec => []NoContractPendingTwice
<1>1. FirstInv => NoContractPendingTwice
  BY DEF FirstInv
<1> QED
  BY <1>1, FirstProtocolIsSound, PTL

(* Tokens pending and assets saved never outnumber the submissions. *)
THEOREM NothingTwice == FirstSpec => []NothingSavedTwice
<1>1. FirstInv => NothingSavedTwice
  BY DEF FirstInv
<1> QED
  BY <1>1, FirstProtocolIsSound, PTL

(* An array indexed right stays so, whatever leaves it and by whichever id. *)
THEOREM IndicesStaySettled == FirstSpec => IndicesStay
<1>1. FirstInv /\ [FirstNext]_firstVars =>
        [/\ Indexed("First") /\ DistinctIds("First")' => Indexed("First")'
         /\ Indexed("Final") /\ Len(pending'["Final"]) <= Len(pending["Final"])
               => Indexed("Final")'
        ]_firstVars
  BY StepKeepsIndices
<1> QED
  BY <1>1, FirstProtocolIsSound, PTL DEF FirstSpec, IndicesStay

(* Whoever the rewards of a verdict land on, their sum is right: between    *)
(* the least and the greatest coefficient a payment buys for each right     *)
(* first vote, and twice that for each right final one.                     *)
THEOREM RewardsMatch ==
    ASSUME IsFiniteSet(Users), Coeffs # {}
    PROVE  FirstSpec => []RewardsMatchGoodVotes
<1>1. FirstInit => RewardsMatchGoodVotes
  BY InitRewards
<1>2. FirstInv /\ RewardsMatchGoodVotes /\ [FirstNext]_firstVars
          => RewardsMatchGoodVotes'
  BY StepKeepsRewards
<1> QED
  BY <1>1, <1>2, FirstProtocolIsSound, PTL DEF FirstSpec

=============================================================================
