------------------------------ MODULE AddressShare ------------------------------
(* How an address reaches a sender (qv-wallet: address.rs, qvaddr.rs,          *)
(* address_book.rs, the handlers of server.rs and commands of main.rs): as a   *)
(* .qvaddr file with a fingerprint, as several QR codes scanned in any order,  *)
(* as a contact of the address book.  What a payment to it does is Stealth's.  *)
(*                                                                             *)
(* An address is a sequence of characters: the prefix, then the payload with a *)
(* length before each key; a key of an owner is the owner's number repeated.   *)
EXTENDS Integers, Sequences, SequencesExt, FiniteSets

CONSTANTS Wallets, KyberLevelOf(_), Labels, None,
          MaxParts,                     \* 8: the most codes the server makes
          CliParts,                     \* numbers of codes asked of the command line
          MaxScans                      \* bound on codes scanned

VARIABLES file,         \* a .qvaddr file on its way, with its owner
          shown,        \* the QR codes on a screen, with their owner
          scanned,      \* the codes a sender has read
          book,         \* the sender's contacts
          recipient,    \* the address the sender is about to pay
          qrScanState   \* the page's scanner: None, or what it has collected
vars == <<file, shown, scanned, book, recipient, qrScanState>>

S == INSTANCE Stealth WITH blocks <- {}, utxo <- {}, made <- <<>>, qvview <- None, qvdisclose <- None,
        changed <- None, Values <- {1}, MaxOutputs <- 1

-------------------------------------------------------------------------------
(* The text of an address.                                                     *)
ADDRESS_PREFIX == 9
kyber_chars(level) == CASE level = 1 -> 1 [] level = 3 -> 2 [] level = 5 -> 3 [] OTHER -> 0
dilithium_chars(level) == CASE level = 2 -> 1 [] level = 3 -> 2 [] level = 5 -> 3 [] OTHER -> 0
Text(upper, chars) == [upper |-> upper, chars |-> chars]
Repeat(c, n) == [i \in 1..n |-> c]

\* The bytes of a key from its characters: whose it is (nobody's if mixed) and how long.
KeyOf(chars) == IF \A i, j \in DOMAIN chars : chars[i] = chars[j] THEN chars[1] ELSE 0
KyberBytes(chars) ==
    S!Bytes(KeyOf(chars), IF \E l \in S!KyberLevel : kyber_chars(l) = Len(chars)
                          THEN S!kyber_key_bytes(CHOOSE l \in S!KyberLevel : kyber_chars(l) = Len(chars)) ELSE 0)
DilithiumBytes(chars) ==
    S!Bytes(KeyOf(chars), IF \E l \in S!DilithiumLevel : dilithium_chars(l) = Len(chars)
                          THEN S!public_key_bytes(CHOOSE l \in S!DilithiumLevel : dilithium_chars(l) = Len(chars))
                          ELSE 0)

StealthAddressPayload(addr) ==
    LET nk == kyber_chars(addr.view_pk.level)
        ns == dilithium_chars(addr.spend_pk.level)
    IN  <<addr.view_pk.level, addr.spend_pk.level, addr.view_pk.x25519.of, nk>>
        \o Repeat(addr.view_pk.kyber.of, nk) \o <<ns>> \o Repeat(addr.spend_pk.bytes.of, ns)
encode_address(addr) == Text(FALSE, <<ADDRESS_PREFIX>> \o StealthAddressPayload(addr))

\* The length of the Kyber key is not checked here.
into_address(kl, dl, x, kyber, spend) ==
    IF kl \in S!KyberLevel /\ dl \in S!DilithiumLevel /\ S!PqcPublicKey(dl, DilithiumBytes(spend)) # None
      THEN [view_pk |-> [x25519 |-> S!Bytes(x, S!X25519_PK_BYTES), kyber |-> KyberBytes(kyber), level |-> kl],
            spend_pk |-> S!PqcPublicKey(dl, DilithiumBytes(spend))]
      ELSE None
decode_address(t) ==
    LET c == t.chars
        nk == c[5]
        ns == c[6 + nk]
    IN  IF t.upper \/ Len(c) < 6 THEN None
        ELSE IF c[1] # ADDRESS_PREFIX \/ nk = 0 \/ Len(c) < 6 + nk THEN None
        ELSE IF ns = 0 \/ Len(c) < 6 + nk + ns THEN None
        ELSE into_address(c[2], c[3], c[4], SubSeq(c, 6, 5 + nk), SubSeq(c, 7 + nk, 6 + nk + ns))

fingerprint(addr) == <<addr.spend_pk.bytes, addr.view_pk.x25519, addr.view_pk.kyber>>

-------------------------------------------------------------------------------
(* Ways.                                                                       *)
Owned(w) == S!address(S!KeysOf(w))
Init == /\ file = None /\ shown = None /\ scanned = <<>> /\ book = <<>> /\ recipient = None
        /\ qrScanState = None

QVADDR_FORMAT_V1 == 1
Qvaddr(addr) == [format |-> QVADDR_FORMAT_V1, address |-> encode_address(addr), fingerprint |-> fingerprint(addr)]
Qvaddr_from_json(q) ==
    LET addr == decode_address(q.address)
    IN  IF q.format = QVADDR_FORMAT_V1 /\ addr # None
          THEN IF fingerprint(addr) = q.fingerprint THEN q.address ELSE None
          ELSE None

\* One exchange at a time: a new one begins when the last one's address is dropped.
Begin == recipient = None /\ book = <<>>

handle_address_qvaddr(w) == /\ Begin /\ file = None /\ shown = None /\ scanned = <<>>
                            /\ file' = [owner |-> w, intact |-> TRUE, qvaddr |-> Qvaddr(Owned(w))]
                            /\ UNCHANGED <<shown, scanned, book, recipient, qrScanState>>

\* One character or field of the file is damaged.
Damage ==
    /\ file # None /\ file.intact
    /\ \E q \in {[file.qvaddr EXCEPT !.format = 2], [file.qvaddr EXCEPT !.fingerprint = <<>>]}
                \cup {[file.qvaddr EXCEPT !.address.chars[i] = c] :
                        i \in DOMAIN file.qvaddr.address.chars, c \in {0, 1, 3, 5}} :
          /\ q # file.qvaddr
          /\ file' = [file EXCEPT !.qvaddr = q, !.intact = FALSE]
    /\ UNCHANGED <<shown, scanned, book, recipient, qrScanState>>

div_ceil(a, b) == (a + b - 1) \div b
address_to_qr_parts(t, parts) ==
    LET len == Len(t.chars)
        chunk == div_ceil(len, parts)
        end(k) == IF k * chunk < len THEN k * chunk ELSE len
        count == Cardinality({k \in 1..parts : (k - 1) * chunk < len})
    IN  [k \in 1..count |-> [index |-> k, total |-> parts,
                             chunk |-> SubSeq(t.chars, (k - 1) * chunk + 1, end(k))]]

\* As many parts as codes, no two with one index, all of the same total.
address_from_qr_parts(parts) ==
    LET at(k) == parts[CHOOSE i \in DOMAIN parts : parts[i].index = k]
        joined == FoldLeft(LAMBDA acc, k : acc \o at(k).chunk, <<>>, [k \in DOMAIN parts |-> k])
    IN  IF /\ parts # <<>>
           /\ \A i \in DOMAIN parts : parts[i].index \in 1..parts[i].total /\ parts[i].total = Len(parts)
           /\ {parts[i].index : i \in DOMAIN parts} = DOMAIN parts
        THEN IF decode_address(Text(FALSE, joined)) # None THEN Text(FALSE, joined) ELSE None
        ELSE None

Show(w, parts, by) ==
    /\ Begin /\ file = None
    /\ shown' = [owner |-> w, by |-> by, codes |-> address_to_qr_parts(encode_address(Owned(w)), parts)]
    /\ UNCHANGED <<file, scanned, book, recipient, qrScanState>>
handle_address_qr_parts(w, parts) == Show(w, parts, "server")
\* Any number of codes, or a file.
cmd_address(w, parts) == Show(w, parts, "cli") \/ handle_address_qvaddr(w)
Scan == /\ shown # None /\ Len(scanned) < MaxScans /\ qrScanState = None
        /\ \E i \in DOMAIN shown.codes :
               scanned' = Append(scanned, [owner |-> shown.owner, of |-> Len(shown.codes), code |-> shown.codes[i]])
        /\ UNCHANGED <<file, shown, book, recipient, qrScanState>>
Codes == [i \in DOMAIN scanned |-> scanned[i].code]

\* The text itself.
handle_address(w) == /\ Begin /\ file = None /\ shown = None /\ scanned = <<>>
                     /\ recipient' = [address |-> encode_address(Owned(w)), owner |-> w, way |-> "text"]
                     /\ UNCHANGED <<file, shown, scanned, book, qrScanState>>

-------------------------------------------------------------------------------
(* The sender.  What arrived is an address text; who it was to be is kept.     *)
Arrives(t, owner, way) == recipient' = [address |-> t, owner |-> owner, way |-> way]

handle_import_qvaddr(q) == Qvaddr_from_json(q)
send_qvaddr_file ==
    /\ file # None /\ handle_import_qvaddr(file.qvaddr) # None
    /\ Arrives(handle_import_qvaddr(file.qvaddr), file.owner, "file")
    /\ file' = None
    /\ UNCHANGED <<shown, scanned, book, qrScanState>>

\* Codes of several owners with one total are not told apart: nobody's if it decodes.
handle_qr_reassemble ==
    /\ address_from_qr_parts(Codes) # None
    /\ Arrives(address_from_qr_parts(Codes),
               IF \A i \in DOMAIN scanned : scanned[i].owner = scanned[1].owner THEN scanned[1].owner ELSE None,
               "codes")
    /\ scanned' = <<>> /\ shown' = None
    /\ UNCHANGED <<file, book, qrScanState>>
-------------------------------------------------------------------------------
(* The page's scanner (server_ui.rs): each code is kept once, the first tells  *)
(* how many there are, and all of them together go to the server.  A frame     *)
(* that was being read when the camera stopped is still processed.             *)
startQrScanner ==
    /\ shown # None /\ scanned = <<>>
    /\ \E camera \in BOOLEAN :
          qrScanState' = [collected |-> <<>>, total |-> None, camera |-> camera, frame |-> FALSE]
    /\ UNCHANGED <<file, shown, scanned, book, recipient>>
stopped(st) == [st EXCEPT !.camera = FALSE, !.frame = st.camera]
btn_qr_scanner_cancel ==
    /\ qrScanState # None /\ qrScanState.camera /\ qrScanState' = stopped(qrScanState)
    /\ UNCHANGED <<file, shown, scanned, book, recipient>>

keep(st, code, owner) ==
    [st EXCEPT !.total = code.total,
               !.collected = [k \in DOMAIN @ \cup {code.index} |->
                                IF k \in DOMAIN @ THEN @[k] ELSE [owner |-> owner, code |-> code]]]
Full(st) == Cardinality(DOMAIN st.collected) = st.total
PartsOf(st) == [k \in DOMAIN st.collected |-> st.collected[k].code]
OwnerOf(st) == IF \A k \in DOMAIN st.collected : st.collected[k].owner = st.collected[1].owner
                 THEN st.collected[1].owner ELSE None
processQrPayload(code, owner) ==
    LET st == [qrScanState EXCEPT !.frame = @ /\ qrScanState.camera]
        next == keep(st, code, owner)
        address == address_from_qr_parts(PartsOf(next))
    IN  /\ qrScanState # None /\ (qrScanState.camera \/ qrScanState.frame)
        /\ Cardinality(DOMAIN st.collected) < MaxScans
        /\ \/ /\ st.total \notin {None, code.total}
              /\ qrScanState' = st /\ UNCHANGED recipient
           \/ /\ st.total \in {None, code.total} /\ ~Full(next)
              /\ qrScanState' = next /\ UNCHANGED recipient
           \/ /\ st.total \in {None, code.total} /\ Full(next)
              /\ qrScanState' = stopped(next)
              /\ IF address = None THEN UNCHANGED recipient
                 ELSE Arrives(address, OwnerOf(next), "scanner")
        /\ UNCHANGED <<file, shown, scanned, book>>

GiveUp == file' = None /\ shown' = None /\ scanned' = <<>> /\ recipient' = None
          /\ qrScanState' = None /\ UNCHANGED book

Contact(t, owner) == [address |-> t, fingerprint |-> fingerprint(decode_address(t)), owner |-> owner]
contacts_add(label) ==
    /\ label \notin DOMAIN book /\ recipient # None /\ decode_address(recipient.address) # None
    /\ book' = [l \in DOMAIN book \cup {label} |->
                  IF l = label THEN Contact(recipient.address, recipient.owner) ELSE book[l]]
    /\ UNCHANGED <<file, shown, scanned, recipient, qrScanState>>
contacts_remove(label) ==
    /\ label \in DOMAIN book
    /\ book' = [l \in DOMAIN book \ {label} |-> book[l]]
    /\ UNCHANGED <<file, shown, scanned, recipient, qrScanState>>
cmd_contacts(label) == contacts_add(label) \/ contacts_remove(label)
resolve_contact(label) ==
    /\ label \in DOMAIN book
    /\ Arrives(book[label].address, book[label].owner, "contact")
    /\ UNCHANGED <<file, shown, scanned, book, qrScanState>>

Next == \/ \E w \in Wallets : \/ handle_address(w) \/ handle_address_qvaddr(w)
                              \/ \E n \in 1..MaxParts : handle_address_qr_parts(w, n)
                              \/ \E n \in CliParts : cmd_address(w, n)
        \/ Damage \/ Scan \/ GiveUp \/ startQrScanner \/ btn_qr_scanner_cancel
        \/ shown # None /\ \E i \in DOMAIN shown.codes : processQrPayload(shown.codes[i], shown.owner)
        \/ send_qvaddr_file \/ handle_qr_reassemble
        \/ \E l \in Labels : cmd_contacts(l) \/ resolve_contact(l)
Spec == Init /\ [][Next]_vars

-------------------------------------------------------------------------------
Output(t) == S!StealthTxOutput(decode_address(t), 1, 1)
Finds(w, o) == S!scan_transaction(o, S!KeysOf(w).view_kp, S!KeysOf(w).spend_pk)

\* A payment to an address that arrived by any way reaches its owner or is refused, even
\* if the file was damaged in a field its fingerprint does not cover, as long as the codes
\* were of one address (decode_address, fingerprint, encapsulate).
ReachesOwner ==
    (recipient # None) =>
        (recipient.owner # None =>
            LET o == Output(recipient.address) IN o # None => Finds(recipient.owner, o))

\* The codes of one address, each scanned once in any order, give it back; fewer, repeated
\* or misplaced ones give nothing (address_to_qr_parts, address_from_qr_parts).
OfOneScreen == scanned # <<>> /\ \A i \in DOMAIN scanned : /\ scanned[i].owner = scanned[1].owner
                                                           /\ scanned[i].code.total = scanned[1].code.total
CodesReassemble ==
    OfOneScreen =>
        address_from_qr_parts(Codes) =
            (IF {c.index : c \in Range(Codes)} = 1..scanned[1].code.total /\ Len(Codes) = scanned[1].code.total
             THEN encode_address(Owned(scanned[1].owner)) ELSE None)

\* No page shows fewer codes than they say there are, so that the sender can finish
\* (address_to_qr_parts; with more parts than the server makes this fails).
CodesComplete == shown # None => (shown.by = "server" => Len(shown.codes) = shown.codes[1].total)

\* A scanner that has all codes has the address, if they were of one owner: no frame read
\* twice, out of order or after the camera stopped spoils it (processQrPayload).
ScannerFinishes ==
    qrScanState # None =>
        (Full(qrScanState) /\ OwnerOf(qrScanState) # None =>
            address_from_qr_parts(PartsOf(qrScanState)) = encode_address(Owned(OwnerOf(qrScanState))))

AddressArrives == ReachesOwner /\ CodesReassemble /\ CodesComplete /\ ScannerFinishes
================================================================================
