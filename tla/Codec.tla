-------------------------------- MODULE Codec --------------------------------
(***************************************************************************)
(* The serialisation between Dart and Rust (frb_generated.rs; the code of  *)
(* frb_generated.dart mirrors it).  A message is the sequence of the       *)
(* primitives written, with neither names nor tags: reader and writer must *)
(* agree on order and widths.  A primitive is one token here, and so is a  *)
(* String or a Vec<u8>, length and bytes together.  A token carries the    *)
(* width it was written with; reading another one gives Garbage.           *)
(***************************************************************************)
EXTENDS Naturals, Sequences

CONSTANTS
    Null,       \* None, null
    Garbage,    \* what a misread yields
    Texts,      \* the contents of a String
    Uuids       \* those that are UUIDs

ASSUME CodecAssumption == Null \notin Texts /\ Null \notin Uuids

(* A `for` loop of n turns, which transform a value by Body.               *)
Loop(Body(_, _), start, n) ==
    LET turn[i \in 0..n] == IF i = 0 THEN start ELSE Body(turn[i - 1], i)
    IN  turn[n]

-----------------------------------------------------------------------------
(* models.rs                                                               *)
Protocols == <<"Ssh", "Rdp", "Vnc", "Http", "Https", "Vpn">>    \* in the order of their numbers
Ports == 0..65535
Option(S) == S \cup {Null}

Connection ==
    [id: Uuids, name: Texts, protocol: {Protocols[i] : i \in DOMAIN Protocols}, host: Texts,
     port: Ports, username: Option(Texts), password: Option(Texts),
     private_key_path: Option(Texts), private_key_passphrase: Option(Texts),
     folder_id: Option(Uuids), tags: Seq(Texts), notes: Option(Texts),
     jump_host_id: Option(Uuids), timeout_seconds: Nat, domain: Option(Texts)]

Folder == [id: Uuids, name: Texts, parent_id: Option(Uuids)]

-----------------------------------------------------------------------------
(* What is written one after the other.                                    *)
Concat(parts) == Loop(LAMBDA m, i : m \o parts[i], <<>>, Len(parts))

Token(kind, v) == <<[kind |-> kind, val |-> v]>>

Read(kind, m) ==
    IF m # <<>> /\ Head(m).kind = kind
    THEN [val |-> Head(m).val, rest |-> Tail(m)]
    ELSE [val |-> Garbage, rest |-> <<>>]

EncodeString(v) == Token("String", v)
DecodeString(m) == Read("String", m)

EncodeProtocol(p) == Token("i32", (CHOOSE i \in DOMAIN Protocols : Protocols[i] = p) - 1)
DecodeProtocol(m) == LET n == Read("i32", m) IN
    [n EXCEPT !.val = IF @ \in 0..5 THEN Protocols[@ + 1] ELSE Garbage]

(* Mutant: the flag that says whether a value follows is the wrong way round. *)
EncodeOptionFlipped(v) ==
    IF v = Null THEN Token("bool", TRUE) ELSE Token("bool", FALSE) \o EncodeString(v)

EncodeOption(v) ==
    IF v = Null THEN Token("bool", FALSE) ELSE Token("bool", TRUE) \o EncodeString(v)
DecodeOption(m) == LET isSome == Read("bool", m) IN
    IF isSome.val = TRUE THEN DecodeString(isSome.rest) ELSE [isSome EXCEPT !.val = Null]

(* A vector: its length, then the elements by the codec of their type.     *)
EncodeVec(codes) == Token("i32", Len(codes)) \o Concat(codes)
DecodeVec(Decode(_), m) ==
    LET length == Read("i32", m)
        Push(r, i) == LET e == Decode(r.rest) IN [val |-> Append(r.val, e.val), rest |-> e.rest]
    IN  Loop(Push, [length EXCEPT !.val = <<>>], IF length.val \in Nat THEN length.val ELSE 0)

EncodeTags(s) == EncodeVec([i \in DOMAIN s |-> EncodeString(s[i])])
DecodeTags(m) == DecodeVec(DecodeString, m)

EncodeConnection(c) == Concat(<<
    EncodeString(c.id), EncodeString(c.name), EncodeProtocol(c.protocol), EncodeString(c.host),
    Token("u16", c.port), EncodeOption(c.username), EncodeOption(c.password),
    EncodeOption(c.private_key_path), EncodeOption(c.private_key_passphrase),
    EncodeOption(c.folder_id), EncodeTags(c.tags), EncodeOption(c.notes),
    EncodeOption(c.jump_host_id), Token("u64", c.timeout_seconds), EncodeOption(c.domain)>>)

DecodeConnection(m) ==
    LET id == DecodeString(m)
        name == DecodeString(id.rest)
        protocol == DecodeProtocol(name.rest)
        host == DecodeString(protocol.rest)
        port == Read("u16", host.rest)
        username == DecodeOption(port.rest)
        password == DecodeOption(username.rest)
        keyPath == DecodeOption(password.rest)
        passphrase == DecodeOption(keyPath.rest)
        folder == DecodeOption(passphrase.rest)
        tags == DecodeTags(folder.rest)
        notes == DecodeOption(tags.rest)
        jumpHost == DecodeOption(notes.rest)
        timeout == Read("u64", jumpHost.rest)
        domain == DecodeOption(timeout.rest)
    IN  [val |-> [id |-> id.val, name |-> name.val, protocol |-> protocol.val,
                  host |-> host.val, port |-> port.val, username |-> username.val,
                  password |-> password.val, private_key_path |-> keyPath.val,
                  private_key_passphrase |-> passphrase.val, folder_id |-> folder.val,
                  tags |-> tags.val, notes |-> notes.val, jump_host_id |-> jumpHost.val,
                  timeout_seconds |-> timeout.val, domain |-> domain.val],
         rest |-> domain.rest]

EncodeFolder(f) ==
    Concat(<<EncodeString(f.id), EncodeString(f.name), EncodeOption(f.parent_id)>>)
DecodeFolder(m) ==
    LET id == DecodeString(m)
        name == DecodeString(id.rest)
        parent == DecodeOption(name.rest)
    IN  [val |-> [id |-> id.val, name |-> name.val, parent_id |-> parent.val],
         rest |-> parent.rest]

EncodeConnections(s) == EncodeVec([i \in DOMAIN s |-> EncodeConnection(s[i])])
DecodeConnections(m) == DecodeVec(DecodeConnection, m)
EncodeFolders(s) == EncodeVec([i \in DOMAIN s |-> EncodeFolder(s[i])])
DecodeFolders(m) == DecodeVec(DecodeFolder, m)
=============================================================================
