-------------------------- MODULE SignedMessageProofs --------------------------
(***************************************************************************)
(* The properties of SignedMessage, for signatures and messages of every   *)
(* length and whether or not m and sm are the same array.                  *)
(***************************************************************************)
EXTENDS SignedMessage, TLAPS

(***************************************************************************)
(* While a copy runs, the part of the message that has moved is at its     *)
(* destination and the part that has not is still at its source: the copy  *)
(* never overwrites a byte it has yet to read, which is what its direction *)
(* is for.                                                                 *)
(***************************************************************************)
SignInv ==
  /\ pc \in {"sign_copy", "signed"} => message \in [0 .. mlen - 1 -> MsgBytes]
  /\ pc = "sign_copy" =>
       \A j \in 0 .. mlen - 1 :
         /\ j >= mlen - i => mem["sm"][CRYPTO_BYTES + j] = message[j]
         /\ j < mlen - i => mem[M][j] = message[j]
  /\ pc = "signed" =>
       /\ \A j \in 0 .. mlen - 1 : mem["sm"][CRYPTO_BYTES + j] = message[j]
       /\ ret = 0 => \A k \in 0 .. CRYPTO_BYTES - 1 : mem["sm"][k] = SigByte(message, k)

OpenInv ==
  /\ pc = "open_copy" =>
       /\ message = signed /\ message \in [0 .. mlen - 1 -> MsgBytes]
       /\ \A j \in 0 .. mlen - 1 :
            /\ j < i => mem[M][j] = message[j]
            /\ j >= i => mem["sm"][CRYPTO_BYTES + j] = message[j]
  /\ pc = "badsig" => mlen = 0 /\ \A k \in 0 .. i - 1 : mem[M][k] = Zero
  /\ pc = "opened" /\ ret = 0 =>
       /\ signed \in [0 .. mlen - 1 -> MsgBytes]
       /\ \A j \in 0 .. mlen - 1 : mem[M][j] = signed[j]
  /\ pc = "opened" /\ ret = -1 =>
       mlen = 0 /\ \A k \in 0 .. smlen - 1 : mem[M][k] = Zero

(***************************************************************************)
(* An intact sm holds a signed message, and it stays intact through a call *)
(* of crypto_sign_open unless m is sm.                                     *)
(***************************************************************************)
IntactInv ==
  /\ intact =>
       /\ smlen >= CRYPTO_BYTES
       /\ signed \in [0 .. smlen - CRYPTO_BYTES - 1 -> MsgBytes]
       /\ \A k \in 0 .. CRYPTO_BYTES - 1 : mem["sm"][k] = SigByte(signed, k)
       /\ \A j \in 0 .. smlen - CRYPTO_BYTES - 1 : mem["sm"][CRYPTO_BYTES + j] = signed[j]
       /\ pc # "sign_copy"
       /\ pc \in {"open_copy", "badsig"} => ~alias
  /\ honest => pc # "badsig" /\ (pc = "opened" => ret = 0)

Inv == TypeOK /\ SignInv /\ OpenInv /\ IntactInv

(***************************************************************************)
(* Facts about the bytes.                                                  *)
(***************************************************************************)
LEMMA ByteKinds ==
  ASSUME NEW w, NEW v, NEW k, NEW l
  PROVE  /\ SigByte(w, k) \notin MsgBytes
         /\ SigByte(w, k) = SigByte(v, l) => w = v /\ k = l
         /\ Zero \in MsgBytes /\ Junk \in MsgBytes
<1>1. SigByte(w, k).kind = "sig" /\ SigByte(w, k).of = w /\ SigByte(w, k).at = k
  BY DEF SigByte
<1>2. SigByte(v, l).of = v /\ SigByte(v, l).at = l
  BY DEF SigByte
<1>3. \A b \in MsgBytes : b.kind # "sig"
  BY DEF MsgBytes, TextByte, Zero, Junk
<1>4. Zero \in MsgBytes /\ Junk \in MsgBytes
  BY DEF MsgBytes
<1> QED
  BY <1>1, <1>2, <1>3, <1>4

\* If the signature verifies, the bytes after it are the last signed message.
LEMMA VerifiesSigned ==
  ASSUME TypeOK, NEW match, NEW n \in 0 .. MaxLen, Verifies(match, n)
  PROVE  Slice("sm", CRYPTO_BYTES, n) = signed
<1> DEFINE W == Slice("sm", CRYPTO_BYTES, n)
<1>1. mem["sm"][0] = SigByte(W, 0)
  BY SignedMessageAssumption DEF Verifies
<1>2. mem["sm"][0] \in MsgBytes \cup {SigByte(signed, k) : k \in Index}
  BY SignedMessageAssumption DEF TypeOK, MemType, Index
<1>3. mem["sm"][0] \notin MsgBytes
  BY <1>1, ByteKinds
<1>4. PICK k \in Index : SigByte(W, 0) = SigByte(signed, k)
  BY <1>1, <1>2, <1>3
<1> QED
  BY <1>4, ByteKinds

LEMMA InitInv == Init => Inv
<1> SUFFICES ASSUME Init PROVE Inv
  OBVIOUS
<1> USE SignedMessageAssumption
<1>1. Empty \in [0 .. -1 -> MsgBytes]
  BY DEF Empty
<1>2. Empty \in Messages
  <2>1. 0 \in 0 .. MaxLen /\ 0 .. 0 - 1 = 0 .. -1
    OBVIOUS
  <2> QED
    BY <1>1, <2>1, Zenon DEF Messages
<1>3. mem["m"] = [k \in Index |-> Zero] /\ mem["sm"] = [k \in Index |-> Zero]
  BY DEF Init
<1>4. MemType
  BY <1>3, ByteKinds DEF Init, MemType
<1>5. ControlType
  <2>1. 0 \in 0 .. MaxLen /\ 0 \in 0 .. CRYPTO_BYTES + MaxLen
    OBVIOUS
  <2> QED
    BY <2>1, Zenon DEF Init, ControlType
<1>6. HistoryType
  BY <1>2 DEF Init, HistoryType
<1> QED
  BY <1>4, <1>5, <1>6 DEF Init, Inv, TypeOK, SignInv, OpenInv, IntactInv

-------------------------------------------------------------------------------
(***************************************************************************)
(* The steps, one lemma per action.                                        *)
(***************************************************************************)
LEMMA SignCopyInv == Inv /\ SignCopy => Inv'
<1> SUFFICES ASSUME Inv, SignCopy PROVE Inv'
  OBVIOUS
<1> USE SignedMessageAssumption
<1> DEFINE dst == CRYPTO_BYTES + mlen - 1 - i
           src == mlen - 1 - i
<1>1. /\ pc = "sign_copy" /\ i < mlen /\ pc' = pc /\ i' = i + 1 /\ M' = M
      /\ mem' = [mem EXCEPT !["sm"][dst] = mem[M][src]]
      /\ UNCHANGED <<alias, mlen, smlen, ret, message, signed, intact, honest>>
  BY DEF SignCopy, history, M
<1>2. /\ i \in Nat /\ mlen \in 0 .. MaxLen /\ M \in {"m", "sm"}
      /\ src \in 0 .. mlen - 1 /\ src \in Index /\ dst \in Index /\ dst >= CRYPTO_BYTES
  BY <1>1 DEF Inv, TypeOK, ControlType, Index, M
<1>3. message \in [0 .. mlen - 1 -> MsgBytes] /\ mem[M][src] = message[src]
  BY <1>1, <1>2 DEF Inv, SignInv
<1>4. mem[M][src] \in MsgBytes
  BY <1>2, <1>3
<1>5. /\ mem \in [{"m", "sm"} -> [Index -> MsgBytes \cup {SigByte(signed, k) : k \in Index}]]
      /\ mem'["m"] = mem["m"]
      /\ \A k \in Index : mem'["sm"][k] = IF k = dst THEN mem[M][src] ELSE mem["sm"][k]
  BY <1>1, <1>2 DEF Inv, TypeOK, MemType
<1>6. MemType'
  BY <1>1, <1>2, <1>4, <1>5 DEF Inv, TypeOK, MemType
<1>7. ControlType' /\ HistoryType'
  BY <1>1, <1>2 DEF Inv, TypeOK, ControlType, HistoryType
<1>8. ASSUME NEW j \in 0 .. mlen - 1
      PROVE  /\ j >= mlen - i' => mem'["sm"][CRYPTO_BYTES + j] = message[j]
             /\ j < mlen - i' => mem'[M][j] = message[j]
  <2>1. j \in Index /\ CRYPTO_BYTES + j \in Index
    BY <1>2 DEF Index
  <2>2. CASE j = src
    BY <1>1, <1>2, <1>3, <1>5, <2>1, <2>2
  <2>3. CASE j > src
    BY <1>1, <1>2, <1>5, <2>1, <2>3 DEF Inv, SignInv
  <2>4. CASE j < src
    BY <1>1, <1>2, <1>5, <2>1, <2>4 DEF Inv, SignInv
  <2> QED
    BY <1>2, <2>2, <2>3, <2>4
<1>9. SignInv'
  BY <1>1, <1>3, <1>8 DEF SignInv
<1>10. OpenInv' /\ IntactInv'
  BY <1>1 DEF Inv, OpenInv, IntactInv
<1> QED
  BY <1>6, <1>7, <1>9, <1>10 DEF Inv, TypeOK

LEMMA SignDoneInv == Inv /\ SignDone => Inv'
<1> SUFFICES ASSUME Inv, SignDone PROVE Inv'
  OBVIOUS
<1> USE SignedMessageAssumption
<1>1. /\ pc = "sign_copy" /\ i = mlen /\ pc' = "signed" /\ i' = 0 /\ mlen \in 0 .. MaxLen
      /\ UNCHANGED <<alias, mlen, message, honest>>
      /\ smlen' \in 0 .. CRYPTO_BYTES + MaxLen /\ ret' \in {0, -1} /\ ~intact
  BY DEF SignDone, Inv, TypeOK, ControlType, IntactInv
<1>2. /\ message \in [0 .. mlen - 1 -> MsgBytes]
      /\ \A j \in 0 .. mlen - 1 : mem["sm"][CRYPTO_BYTES + j] = message[j]
  BY <1>1 DEF Inv, SignInv
<1>3. Slice("sm", CRYPTO_BYTES, mlen) = message
  BY <1>2 DEF Slice
<1>4. /\ mem \in [{"m", "sm"} -> [Index -> MsgBytes \cup {SigByte(signed, k) : k \in Index}]]
      /\ \A k \in Index : k >= CRYPTO_BYTES => mem["sm"][k] \in MsgBytes
      /\ \A k \in Index : mem["m"][k] \in MsgBytes
      /\ \A j \in 0 .. mlen - 1 : CRYPTO_BYTES + j \in Index
  BY <1>1 DEF Inv, TypeOK, MemType, Index
<1>5. 0 .. CRYPTO_BYTES - 1 \subseteq Index
  BY DEF Index
<1>6. CASE /\ mem' = [mem EXCEPT !["sm"] = [k \in Index |->
                  IF k < CRYPTO_BYTES THEN SigByte(Slice("sm", CRYPTO_BYTES, mlen), k) ELSE @[k]]]
           /\ smlen' = CRYPTO_BYTES + mlen /\ ret' = 0 /\ intact' = TRUE /\ signed' = message
  <2>1. /\ mem'["m"] = mem["m"]
        /\ \A k \in Index : mem'["sm"][k] = IF k < CRYPTO_BYTES THEN SigByte(message, k) ELSE mem["sm"][k]
    BY <1>3, <1>4, <1>6
  <2>2. MemType'
    BY <1>4, <1>6, <2>1 DEF MemType, Index
  <2>3. ControlType' /\ HistoryType'
    <3>1. intact' \in BOOLEAN
      BY <1>6
    <3> QED
      BY <1>1, <1>6, <3>1 DEF Inv, TypeOK, ControlType, HistoryType
  <2>4. /\ \A j \in 0 .. mlen - 1 : mem'["sm"][CRYPTO_BYTES + j] = message[j]
        /\ \A k \in 0 .. CRYPTO_BYTES - 1 : mem'["sm"][k] = SigByte(message, k)
    BY <1>2, <1>4, <1>5, <2>1
  <2>5. SignInv' /\ OpenInv'
    BY <1>1, <1>2, <1>6, <2>4 DEF SignInv, OpenInv
  <2>6. smlen' - CRYPTO_BYTES - 1 = mlen - 1 /\ smlen' >= CRYPTO_BYTES
    BY <1>1, <1>6
  <2>7. IntactInv'
    BY <1>1, <1>2, <1>6, <2>4, <2>6 DEF IntactInv
  <2> QED
    BY <2>2, <2>3, <2>5, <2>7 DEF Inv, TypeOK
<1>7. CASE /\ mem' = [mem EXCEPT !["sm"] = [k \in Index |-> IF k < CRYPTO_BYTES THEN Zero ELSE @[k]]]
           /\ smlen' = mlen /\ ret' = -1 /\ UNCHANGED <<signed, intact>>
  <2>1. /\ mem'["m"] = mem["m"]
        /\ \A k \in Index : mem'["sm"][k] = IF k < CRYPTO_BYTES THEN Zero ELSE mem["sm"][k]
    BY <1>4, <1>7
  <2>2. MemType'
    BY <1>4, <1>7, <2>1, ByteKinds DEF MemType, Index
  <2>3. ControlType' /\ HistoryType'
    BY <1>1, <1>7 DEF Inv, TypeOK, ControlType, HistoryType
  <2>4. \A j \in 0 .. mlen - 1 : mem'["sm"][CRYPTO_BYTES + j] = message[j]
    BY <1>2, <1>4, <2>1
  <2>5. SignInv' /\ OpenInv' /\ IntactInv'
    BY <1>1, <1>2, <1>7, <2>4 DEF Inv, SignInv, OpenInv, IntactInv
  <2> QED
    BY <2>2, <2>3, <2>5 DEF Inv, TypeOK
<1>8. CASE smlen' = mlen /\ ret' = -1 /\ UNCHANGED <<signed, intact, mem>>
  <2>1. MemType' /\ HistoryType' /\ ControlType'
    BY <1>1, <1>8 DEF Inv, TypeOK, MemType, ControlType, HistoryType
  <2>2. SignInv' /\ OpenInv' /\ IntactInv'
    BY <1>1, <1>2, <1>8 DEF Inv, SignInv, OpenInv, IntactInv
  <2> QED
    BY <2>1, <2>2 DEF Inv, TypeOK
<1> QED
  BY <1>6, <1>7, <1>8 DEF SignDone

LEMMA CryptoSignInv == Inv /\ CryptoSign => Inv'
<1> SUFFICES ASSUME Inv, CryptoSign PROVE Inv'
  OBVIOUS
<1> USE SignedMessageAssumption
<1>1. PICK a \in BOOLEAN, n \in 0 .. MaxLen, t \in Texts :
        /\ alias' = a /\ mlen' = n
        /\ message' = [j \in 0 .. n - 1 |-> TextByte(t, j)]
        /\ mem' = [mem EXCEPT ![IF a THEN "sm" ELSE "m"] =
                     [k \in Index |-> IF k < n THEN TextByte(t, k) ELSE @[k]]]
  BY Zenon DEF CryptoSign
<1>2. /\ i' = 0 /\ pc' = "sign_copy" /\ intact' = FALSE /\ honest' = FALSE
      /\ UNCHANGED <<smlen, ret, signed>>
  BY DEF CryptoSign
<1>3. /\ mem \in [{"m", "sm"} -> [Index -> MsgBytes \cup {SigByte(signed, k) : k \in Index}]]
      /\ \A k \in Index : mem["m"][k] \in MsgBytes
      /\ \A k \in Index : k >= CRYPTO_BYTES => mem["sm"][k] \in MsgBytes
  BY DEF Inv, TypeOK, MemType
<1>4. \A k \in Index : TextByte(t, k) \in MsgBytes
  BY DEF MsgBytes
<1>5. 0 .. n - 1 \subseteq Index /\ M' \in {"m", "sm"}
  BY DEF Index, M
<1>6. MemType' /\ \A j \in 0 .. n - 1 : mem'[M'][j] = TextByte(t, j)
  <2>1. CASE a
    <3>1. /\ mem'["m"] = mem["m"] /\ M' = "sm"
          /\ mem'["sm"] = [k \in Index |-> IF k < n THEN TextByte(t, k) ELSE mem["sm"][k]]
      BY <1>1, <1>3, <2>1 DEF M
    <3> QED
      BY <1>1, <1>2, <1>3, <1>4, <1>5, <3>1 DEF MemType
  <2>2. CASE ~a
    <3>1. /\ mem'["sm"] = mem["sm"] /\ M' = "m"
          /\ mem'["m"] = [k \in Index |-> IF k < n THEN TextByte(t, k) ELSE mem["m"][k]]
      BY <1>1, <1>3, <2>2 DEF M
    <3> QED
      BY <1>1, <1>2, <1>3, <1>4, <1>5, <3>1 DEF MemType
  <2> QED
    BY <2>1, <2>2
<1>7. message' \in [0 .. n - 1 -> MsgBytes]
  BY <1>1, <1>4, <1>5
<1>8. HistoryType'
  BY <1>2, <1>7 DEF Inv, TypeOK, HistoryType, Messages
<1>9. ControlType'
  <2>1. alias' \in BOOLEAN /\ intact' \in BOOLEAN /\ honest' \in BOOLEAN
    BY <1>1, <1>2
  <2> QED
    BY <1>1, <1>2, <2>1 DEF Inv, TypeOK, ControlType
<1>10. SignInv'
  BY <1>1, <1>2, <1>6, <1>7 DEF SignInv
<1>11. OpenInv' /\ IntactInv'
  BY <1>2 DEF OpenInv, IntactInv
<1> QED
  BY <1>6, <1>8, <1>9, <1>10, <1>11 DEF Inv, TypeOK

LEMMA TamperInv == Inv /\ Tamper => Inv'
<1> SUFFICES ASSUME Inv, Tamper PROVE Inv'
  OBVIOUS
<1> USE SignedMessageAssumption
<1>1. /\ intact' = FALSE /\ pc' = "idle" /\ smlen \in 0 .. CRYPTO_BYTES + MaxLen
      /\ UNCHANGED <<alias, mlen, i, ret, message, signed, honest>>
  BY DEF Tamper, Inv, TypeOK, ControlType
<1>2. MemType' /\ smlen' \in 0 .. CRYPTO_BYTES + MaxLen
  <2>1. CASE \E k \in 0 .. smlen - 1 :
               \E b \in {Junk} \cup {TextByte(t, k - CRYPTO_BYTES) : t \in Texts} :
                 /\ b # Junk => k >= CRYPTO_BYTES
                 /\ mem' = [mem EXCEPT !["sm"][k] = b]
                 /\ UNCHANGED smlen
    <3>1. PICK k \in 0 .. smlen - 1 :
            \E b \in {Junk} \cup {TextByte(t, k - CRYPTO_BYTES) : t \in Texts} :
              /\ b # Junk => k >= CRYPTO_BYTES
              /\ mem' = [mem EXCEPT !["sm"][k] = b]
              /\ UNCHANGED smlen
      BY <2>1
    <3>2. PICK b \in {Junk} \cup {TextByte(t, k - CRYPTO_BYTES) : t \in Texts} :
            /\ b # Junk => k >= CRYPTO_BYTES
            /\ mem' = [mem EXCEPT !["sm"][k] = b]
            /\ UNCHANGED smlen
      BY <3>1
    <3>3. b \in MsgBytes
      <4>1. CASE b = Junk
        BY <4>1, ByteKinds
      <4>2. CASE b # Junk
        <5>1. k - CRYPTO_BYTES \in Index
          BY <1>1, <3>2, <4>2 DEF Index
        <5> QED
          BY <3>2, <4>2, <5>1 DEF MsgBytes
      <4> QED
        BY <4>1, <4>2
    <3> QED
      BY <1>1, <3>2, <3>3 DEF Inv, TypeOK, MemType
  <2>2. CASE \E n \in 0 .. CRYPTO_BYTES + MaxLen : smlen' = n /\ UNCHANGED mem
    BY <1>1, <2>2 DEF Inv, TypeOK, MemType
  <2> QED
    BY <2>1, <2>2 DEF Tamper
<1>3. ControlType'
  <2>1. intact' \in BOOLEAN
    BY <1>1
  <2> QED
    BY <1>1, <1>2, <2>1 DEF Inv, TypeOK, ControlType
<1>4. HistoryType' /\ SignInv' /\ OpenInv' /\ IntactInv'
  BY <1>1 DEF Inv, TypeOK, HistoryType, SignInv, OpenInv, IntactInv
<1> QED
  BY <1>2, <1>3, <1>4 DEF Inv, TypeOK

LEMMA CryptoSignOpenInv == Inv /\ CryptoSignOpen => Inv'
<1> SUFFICES ASSUME Inv, CryptoSignOpen PROVE Inv'
  OBVIOUS
<1> USE SignedMessageAssumption
<1> DEFINE n == smlen - CRYPTO_BYTES
<1>1. PICK a \in BOOLEAN, match \in BOOLEAN :
        /\ alias' = a /\ i' = 0
        /\ honest' = (intact /\ match)
        /\ intact' = (intact /\ ~a)
        /\ IF n >= 0 /\ Verifies(match, n)
           THEN mlen' = n /\ message' = Slice("sm", CRYPTO_BYTES, n) /\ pc' = "open_copy"
           ELSE mlen' = 0 /\ message' = Empty /\ pc' = "badsig"
  BY DEF CryptoSignOpen
<1>2. UNCHANGED <<mem, smlen, ret, signed>> /\ smlen \in 0 .. CRYPTO_BYTES + MaxLen
  BY DEF CryptoSignOpen, Inv, TypeOK, ControlType
<1>3. MemType'
  BY <1>2 DEF Inv, TypeOK, MemType
<1>4. alias' \in BOOLEAN /\ intact' \in BOOLEAN /\ honest' \in BOOLEAN
  BY <1>1, Zenon
<1>5. \A k \in 0 .. n - 1 : CRYPTO_BYTES + k \in Index /\ mem["sm"][CRYPTO_BYTES + k] \in MsgBytes
  BY <1>2 DEF Inv, TypeOK, MemType, Index
<1>6. CASE n >= 0 /\ Verifies(match, n)
  <2>1. /\ n \in 0 .. MaxLen /\ mlen' = n /\ pc' = "open_copy"
        /\ message' = Slice("sm", CRYPTO_BYTES, n)
    BY <1>1, <1>2, <1>6
  <2>2. message' = signed
    BY <1>6, <2>1, VerifiesSigned DEF Inv
  <2>3. message' \in [0 .. n - 1 -> MsgBytes]
    BY <1>5, <2>1 DEF Slice
  <2>4. \A j \in 0 .. n - 1 : mem["sm"][CRYPTO_BYTES + j] = message'[j]
    BY <2>1 DEF Slice
  <2>5. ControlType'
    BY <1>1, <1>2, <1>4, <2>1 DEF Inv, TypeOK, ControlType
  <2>6. HistoryType'
    BY <1>2, <2>2 DEF Inv, TypeOK, HistoryType
  <2>7. SignInv' /\ OpenInv'
    BY <1>1, <1>2, <2>1, <2>2, <2>3, <2>4 DEF SignInv, OpenInv
  <2>8. intact' => intact /\ ~alias'
    BY <1>1, Zenon
  <2>9. IntactInv'
    BY <1>2, <2>1, <2>8 DEF Inv, IntactInv
  <2> QED
    BY <1>3, <2>5, <2>6, <2>7, <2>9 DEF Inv, TypeOK
<1>7. CASE ~(n >= 0 /\ Verifies(match, n))
  <2>1. mlen' = 0 /\ message' = Empty /\ pc' = "badsig"
    BY <1>1, <1>7
  <2>2. Empty \in Messages
    <3>1. 0 \in 0 .. MaxLen /\ 0 .. 0 - 1 = 0 .. -1 /\ Empty \in [0 .. -1 -> MsgBytes]
      BY DEF Empty
    <3> QED
      BY <3>1, Zenon DEF Messages
  <2>3. ControlType'
    BY <1>1, <1>2, <1>4, <2>1 DEF Inv, TypeOK, ControlType
  <2>4. HistoryType'
    BY <1>2, <2>1, <2>2 DEF Inv, TypeOK, HistoryType
  <2>5. SignInv' /\ OpenInv'
    BY <1>1, <2>1 DEF SignInv, OpenInv
  <2>6. ~(intact /\ match)
    <3> SUFFICES ASSUME intact, match PROVE n >= 0 /\ Verifies(match, n)
      BY <1>7
    <3>1. /\ n >= 0 /\ signed \in [0 .. n - 1 -> MsgBytes]
          /\ \A k \in 0 .. CRYPTO_BYTES - 1 : mem["sm"][k] = SigByte(signed, k)
          /\ \A j \in 0 .. n - 1 : mem["sm"][CRYPTO_BYTES + j] = signed[j]
      BY <1>2 DEF Inv, IntactInv
    <3>2. Slice("sm", CRYPTO_BYTES, n) = signed
      BY <3>1 DEF Slice
    <3> QED
      BY <3>1, <3>2 DEF Verifies
  <2>7. ~honest' /\ (intact' => intact /\ ~alias')
    BY <1>1, <2>6, Zenon
  <2>8. IntactInv'
    BY <1>2, <2>1, <2>7 DEF Inv, IntactInv
  <2> QED
    BY <1>3, <2>3, <2>4, <2>5, <2>8 DEF Inv, TypeOK
<1> QED
  BY <1>6, <1>7

LEMMA OpenCopyInv == Inv /\ OpenCopy => Inv'
<1> SUFFICES ASSUME Inv, OpenCopy PROVE Inv'
  OBVIOUS
<1> USE SignedMessageAssumption
<1>1. /\ pc = "open_copy" /\ i < mlen /\ pc' = pc /\ i' = i + 1 /\ M' = M
      /\ mem' = [mem EXCEPT ![M][i] = mem["sm"][CRYPTO_BYTES + i]]
      /\ UNCHANGED <<alias, mlen, smlen, ret, message, signed, intact, honest>>
  BY DEF OpenCopy, history, M
<1>2. /\ i \in 0 .. mlen - 1 /\ mlen \in 0 .. MaxLen /\ M \in {"m", "sm"}
      /\ i \in Index /\ CRYPTO_BYTES + i \in Index
  BY <1>1 DEF Inv, TypeOK, ControlType, Index, M
<1>3. /\ message = signed /\ message \in [0 .. mlen - 1 -> MsgBytes]
      /\ mem["sm"][CRYPTO_BYTES + i] = message[i] /\ message[i] \in MsgBytes
  BY <1>1, <1>2 DEF Inv, OpenInv
<1>4. /\ mem \in [{"m", "sm"} -> [Index -> MsgBytes \cup {SigByte(signed, k) : k \in Index}]]
      /\ \A b \in {"m", "sm"} : \A k \in Index :
           mem'[b][k] = IF b = M /\ k = i THEN message[i] ELSE mem[b][k]
  BY <1>1, <1>2, <1>3 DEF Inv, TypeOK, MemType
<1>5. MemType'
  BY <1>1, <1>2, <1>3, <1>4 DEF Inv, TypeOK, MemType
<1>6. ControlType' /\ HistoryType'
  BY <1>1, <1>2 DEF Inv, TypeOK, ControlType, HistoryType
<1>7. ASSUME NEW j \in 0 .. mlen - 1
      PROVE  /\ j < i' => mem'[M][j] = message[j]
             /\ j >= i' => mem'["sm"][CRYPTO_BYTES + j] = message[j]
  <2>1. j \in Index /\ CRYPTO_BYTES + j \in Index
    BY <1>2 DEF Index
  <2> QED
    BY <1>1, <1>2, <1>4, <2>1 DEF Inv, OpenInv
<1>8. SignInv' /\ OpenInv'
  BY <1>1, <1>3, <1>7 DEF SignInv, OpenInv
<1>9. IntactInv'
  <2>1. CASE intact
    <3>1. M = "m" /\ mem'["sm"] = mem["sm"]
      BY <1>1, <1>2, <1>4, <2>1 DEF Inv, IntactInv, M
    <3> QED
      BY <1>1, <3>1 DEF Inv, IntactInv
  <2>2. CASE ~intact
    BY <1>1, <2>2 DEF Inv, IntactInv
  <2> QED
    BY <2>1, <2>2
<1> QED
  BY <1>5, <1>6, <1>8, <1>9 DEF Inv, TypeOK

LEMMA OpenWipeInv == Inv /\ OpenWipe => Inv'
<1> SUFFICES ASSUME Inv, OpenWipe PROVE Inv'
  OBVIOUS
<1> USE SignedMessageAssumption
<1>1. /\ pc = "badsig" /\ i < smlen /\ pc' = pc /\ i' = i + 1 /\ M' = M
      /\ mem' = [mem EXCEPT ![M][i] = Zero]
      /\ UNCHANGED <<alias, mlen, smlen, ret, message, signed, intact, honest>>
  BY DEF OpenWipe, history, M
<1>2. i \in Index /\ i \in Nat /\ smlen \in 0 .. CRYPTO_BYTES + MaxLen /\ M \in {"m", "sm"}
  BY <1>1 DEF Inv, TypeOK, ControlType, Index, M
<1>3. /\ mem \in [{"m", "sm"} -> [Index -> MsgBytes \cup {SigByte(signed, k) : k \in Index}]]
      /\ \A b \in {"m", "sm"} : \A k \in Index :
           mem'[b][k] = IF b = M /\ k = i THEN Zero ELSE mem[b][k]
  BY <1>1, <1>2 DEF Inv, TypeOK, MemType
<1>4. MemType'
  BY <1>1, <1>2, <1>3, ByteKinds DEF Inv, TypeOK, MemType
<1>5. ControlType' /\ HistoryType'
  BY <1>1, <1>2 DEF Inv, TypeOK, ControlType, HistoryType
<1>6. \A k \in 0 .. i' - 1 : mem'[M][k] = Zero
  <2>1. \A k \in 0 .. i : k \in Index
    BY <1>2 DEF Index
  <2> QED
    BY <1>1, <1>2, <1>3, <2>1 DEF Inv, OpenInv
<1>7. SignInv' /\ OpenInv'
  BY <1>1, <1>6 DEF Inv, SignInv, OpenInv
<1>8. IntactInv'
  <2>1. CASE intact
    <3>1. M = "m" /\ mem'["sm"] = mem["sm"]
      BY <1>1, <1>2, <1>3, <2>1 DEF Inv, IntactInv, M
    <3> QED
      BY <1>1, <3>1 DEF Inv, IntactInv
  <2>2. CASE ~intact
    BY <1>1, <2>2 DEF Inv, IntactInv
  <2> QED
    BY <2>1, <2>2
<1> QED
  BY <1>4, <1>5, <1>7, <1>8 DEF Inv, TypeOK

LEMMA OpenEndInv == Inv /\ (OpenDone \/ OpenFail) => Inv'
<1> SUFFICES ASSUME Inv, OpenDone \/ OpenFail PROVE Inv'
  OBVIOUS
<1> USE SignedMessageAssumption
<1>1. /\ pc' = "opened" /\ i' = 0 /\ M' = M
      /\ UNCHANGED <<mem, alias, mlen, smlen, message, signed, intact, honest>>
  BY DEF OpenDone, OpenFail, history, M
<1>2. \/ pc = "open_copy" /\ i = mlen /\ ret' = 0
      \/ pc = "badsig" /\ i = smlen /\ ret' = -1
  BY DEF OpenDone, OpenFail
<1>3. MemType' /\ HistoryType'
  BY <1>1 DEF Inv, TypeOK, MemType, HistoryType
<1>4. ControlType'
  BY <1>1, <1>2 DEF Inv, TypeOK, ControlType
<1>5. mlen \in 0 .. MaxLen /\ smlen \in 0 .. CRYPTO_BYTES + MaxLen
  BY DEF Inv, TypeOK, ControlType
<1>6. SignInv' /\ OpenInv'
  BY <1>1, <1>2, <1>5 DEF Inv, SignInv, OpenInv
<1>7. IntactInv'
  BY <1>1, <1>2 DEF Inv, IntactInv
<1> QED
  BY <1>3, <1>4, <1>6, <1>7 DEF Inv, TypeOK

LEMMA StutterInv == Inv /\ UNCHANGED vars => Inv'
BY DEF vars, Inv, TypeOK, ControlType, MemType, HistoryType, SignInv, OpenInv, IntactInv, M

LEMMA Invariance == Spec => []Inv
<1>1. Inv /\ [Next]_vars => Inv'
  BY CryptoSignInv, SignCopyInv, SignDoneInv, TamperInv, CryptoSignOpenInv, OpenCopyInv,
     OpenWipeInv, OpenEndInv, StutterInv DEF Next
<1> QED
  BY InitInv, <1>1, PTL DEF Spec

-------------------------------------------------------------------------------
(***************************************************************************)
(* The theorems.                                                           *)
(***************************************************************************)
\* No access of crypto_sign and crypto_sign_open is out of bounds, and no copy
\* moves a byte of a signature.
THEOREM TypeCorrect == Spec => []TypeOK
<1>1. Inv => TypeOK
  BY DEF Inv
<1> QED
  BY Invariance, <1>1, PTL

\* The descending copy of crypto_sign is right for every length of message and
\* signature, also in place: it signs, and keeps in sm, what it was given.
THEOREM SigningInPlace == Spec => []SignsTheMessage
<1>1. Inv => SignsTheMessage
  BY DEF Inv, SignInv, SignsTheMessage, Slice
<1> QED
  BY Invariance, <1>1, PTL

\* The ascending copy of crypto_sign_open is right for every length, also in
\* place, and only a signed message is delivered.
THEOREM OpeningInPlace == Spec => []OpenDelivers
<1>1. Inv => OpenDelivers
  <2> SUFFICES ASSUME Inv, pc = "opened", ret = 0 PROVE Slice(M, 0, mlen) = signed
    BY DEF OpenDelivers
  <2>1. mlen \in Nat
    BY DEF Inv, TypeOK, ControlType
  <2>2. /\ signed \in [0 .. mlen - 1 -> MsgBytes]
        /\ \A j \in 0 .. mlen - 1 : mem[M][0 + j] = signed[j]
    BY <2>1 DEF Inv, OpenInv
  <2> QED
    BY <2>2 DEF Slice
<1> QED
  BY Invariance, <1>1, PTL

\* A failed crypto_sign_open leaves zeros, for every length.
THEOREM FailureReleasesNothing == Spec => []FailedOpenReleasesNothing
<1>1. Inv => FailedOpenReleasesNothing
  BY DEF Inv, OpenInv, FailedOpenReleasesNothing
<1> QED
  BY Invariance, <1>1, PTL

\* What was signed, and not touched since, opens: for every length, also in place.
THEOREM SignedOpens == Spec => []RoundTrip
<1>1. Inv /\ OpenDelivers => RoundTrip
  BY DEF Inv, IntactInv, OpenDelivers, RoundTrip
<1> QED
  BY Invariance, OpeningInPlace, <1>1, PTL
===============================================================================
