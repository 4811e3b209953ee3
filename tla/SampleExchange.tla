--------------------------- MODULE SampleExchange ---------------------------
(***************************************************************************)
(* A publisher and a subscriber of one of the ten generated types: the     *)
(* publisher fills an object and writes it, again and again; the           *)
(* subscriber takes what is on the wire into one object that it keeps      *)
(* between callbacks, and copies or moves that object.  The two programs   *)
(* may have been compiled against different versions of fastcdr.           *)
(***************************************************************************)
EXTENDS DataDefine, ExampleTypes

CONSTANTS
    Types,      \* the names of the types to exchange
    Values      \* kind of member -> the values a publisher gives it

Generated ==
    [t \in (DOMAIN DataDefineTypes) \cup (DOMAIN ExampleTypesTable) |->
        IF t \in DOMAIN DataDefineTypes THEN DataDefineTypes[t] ELSE ExampleTypesTable[t]]

ASSUME TypesAssumption == Types \subseteq DOMAIN Generated
ASSUME ValuesAssumption == \A kind \in DOMAIN Width : Values[kind] \subseteq Nat

VARIABLES
    type,       \* the name of the type of the topic
    cdr,        \* the representation of its samples
    writerBuild, readerBuild,   \* fastcdr1 or fastcdr2
    policy,     \* the memory policy of the writer's history
    data,       \* the publisher's object, kept between writes
    keyBuffer,  \* m_keyBuffer of its type support
    handle,     \* the instance of the last write
    reserved,   \* what getSerializedSizeProvider answered for it
    refused,    \* some write returned false
    wire,       \* what the wire holds, and the values meant
    msg,        \* the subscriber's object
    msgOf,      \* the values meant by the sample msg was taken from
    kept, keptOf    \* a copy of msg, and what it is a copy of

topic == <<type, cdr, writerBuild, readerBuild, policy>>
writerVars == <<data, keyBuffer, handle, reserved, refused, wire>>
readerVars == <<msg, msgOf, kept, keptOf>>
exchangeVars == <<topic, writerVars, readerVars>>

Nothing == [none |-> TRUE]

Support == Generated[type].support
Writer == Generated[type].builds[writerBuild]
Reader == Generated[type].builds[readerBuild]

New(class) == [m \in DOMAIN class |-> Default(class[m])]

\* What a publisher can mean to send: a value for every member.
Meanings ==
    {d \in [DOMAIN Writer.class -> UNION {Values[Writer.class[m]] : m \in DOMAIN Writer.class}] :
        \A m \in DOMAIN d : d[m] \in Values[Writer.class[m]]}

\* HistoryKind, and ddsQos with the word History, ask for DYNAMIC_RESERVE.
Policies(t) == CASE t = "sample" -> {"dynamic"}
                 [] t = "Target" -> {"dynamic", "realloc"}
                 [] OTHER -> {"realloc"}

-----------------------------------------------------------------------------
\* The accessors: a member that has one takes the value, in the room its
\* kind has for it.
Filled(object, d) ==
    [m \in DOMAIN object |-> IF m \in Writer.set THEN Stored(Writer.class[m], d[m])
                                                 ELSE object[m]]

\* getSerializedSizeProvider.
SerializedSize(d) == Size(Writer.class, Writer.cdr.calculated, d, cdr) + Encapsulation

\* serialize into a payload of the given size; false when it does not fit.
Serialized(d) == Stream(Writer.class, Writer.cdr.serialized, d, cdr)
Fits(d, maxSize) == Serialized(d).end + Encapsulation <= maxSize

\* deserialize into the object; .ok is what it returns.
Deserialized(stream, object) ==
    Parse(Reader.class, Reader.cdr.deserialized, stream, cdr, object)

\* getKey: the key goes over the first bytes of the buffer, the handle is its
\* first sixteen.  No type has a key longer than that, so no digest is taken.
KeyBuffer(buffer, d) ==
    LET key == KeyBytes(Writer.class, Writer.cdr.key, d)
    IN  [i \in 1..Support.keyLength |-> IF i <= Len(key) THEN key[i] ELSE buffer[i]]

\* operator= of the class, from b to a.
Assigned(a, b) == [m \in DOMAIN a |-> IF m \in Reader.copied THEN b[m] ELSE a[m]]

\* What the move leaves in the object it moves from.
MovedFrom(a) ==
    [m \in DOMAIN a |-> IF m \in Reader.copied /\ Movable(Reader.class[m])
                        THEN Default(Reader.class[m]) ELSE a[m]]

-----------------------------------------------------------------------------
ExchangeInit ==
    /\ type \in Types
    /\ writerBuild \in DOMAIN Generated[type].builds
    /\ readerBuild \in DOMAIN Generated[type].builds
    /\ cdr \in Representations
    /\ cdr = "XCDRv2" => writerBuild = "fastcdr2" /\ readerBuild = "fastcdr2"
    /\ policy \in Policies(type)
    /\ data = New(Writer.class)
    /\ keyBuffer = [i \in 1..Support.keyLength |-> 0]
    /\ handle = <<>>
    /\ reserved = 0
    /\ refused = FALSE
    /\ wire = Nothing
    /\ msg = New(Reader.class)
    /\ msgOf = Nothing
    /\ kept = New(Reader.class)
    /\ keptOf = Nothing

\* Fill the object and write it.  The writer asks for the instance, if the
\* type has one, then for the size, takes an entry of its pool and serializes.
Write ==
    \E d \in Meanings :
        LET object == Filled(data, d)
            entry == EntrySize(policy, Support.typeSize, SerializedSize(object))
            done == Fits(object, entry)
        IN  /\ data' = object
            /\ reserved' = SerializedSize(object)
            /\ IF Support.getKeyDefined
                 THEN /\ keyBuffer' = KeyBuffer(keyBuffer, object)
                      /\ handle' = SubSeq(keyBuffer', 1, 16)
                 ELSE UNCHANGED <<keyBuffer, handle>>
            /\ refused' = (refused \/ ~done)
            /\ wire' = IF done
                       THEN [stream |-> Serialized(object),
                             meant |-> [m \in DOMAIN d |-> Stored(Writer.class[m], d[m])]]
                       ELSE wire
            /\ UNCHANGED <<topic, readerVars>>

\* on_data_available: take_next_sample into the object.  Where deserialize
\* throws, what it had already assigned stays.
Take ==
    /\ wire # Nothing
    /\ LET r == Deserialized(wire.stream, msg)
       IN  /\ msg' = r.object
           /\ msgOf' = wire.meant
    /\ UNCHANGED <<topic, writerVars, kept, keptOf>>

Copy ==
    /\ msgOf # Nothing
    /\ kept' = Assigned(kept, msg)
    /\ keptOf' = msgOf
    /\ UNCHANGED <<topic, writerVars, msg, msgOf>>

Move ==
    /\ msgOf # Nothing
    /\ kept' = Assigned(kept, msg)
    /\ keptOf' = msgOf
    /\ msg' = MovedFrom(msg)
    /\ msgOf' = Nothing
    /\ UNCHANGED <<topic, writerVars>>

ExchangeNext == Write \/ Take \/ Copy \/ Move

ExchangeSpec == ExchangeInit /\ [][ExchangeNext]_exchangeVars

-----------------------------------------------------------------------------
(* Properties                                                              *)

\* No write is refused for want of room: what serialize needs never exceeds
\* what getSerializedSizeProvider promised.  The two are generated lists of
\* their own, and a pool of PREALLOCATED_WITH_REALLOC hides a difference until
\* a sample outgrows the type's size.
NoWriteRefused == ~refused

\* Whatever the object held before, after a take it holds what the publisher
\* meant, member for member, and so does a copy of it, also between programs
\* compiled against fastcdr 1 and 2.
TakenAsWritten ==
    /\ msgOf # Nothing => msg = msgOf
    /\ keptOf # Nothing => kept = keptOf

\* A sample of a bounded type, and one of an unbounded type whose strings have
\* up to 255 characters and whose sequences have up to 100 elements, which is
\* what fastddsgen counts for them, fits the size the type announces.
FitsTypeSize ==
    \/ reserved <= Support.typeSize
    \/ /\ ~Generated[type].bounded
       /\ \E m \in DOMAIN data : \/ Writer.class[m] = "string" /\ data[m] > 255
                                 \/ Writer.class[m] = "octets" /\ data[m] > 100

\* Two writes one after the other go to the same instance just when the keys
\* they mean are equal, although every handle is cut from one buffer that no
\* call clears.
InstanceIsKey ==
    [][Support.getKeyDefined /\ handle # <<>> /\ wire # Nothing /\ wire' # wire =>
          LET keys == {m \in DOMAIN data : m \in {"deadlinekey", "key_value"}}
          IN  (handle' = handle) <=>
                  (\A m \in keys : wire'.meant[m] = wire.meant[m])]_exchangeVars
=============================================================================
