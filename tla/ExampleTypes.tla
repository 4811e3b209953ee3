---------------------------- MODULE ExampleTypes ----------------------------
(***************************************************************************)
(* The types of the other five programs.  Each class is there twice: the   *)
(* files named ...v1 are compiled when the installed fastcdr is 1 (the     *)
(* definitions that end in 1), the others when it is 2.                    *)
(***************************************************************************)
EXTENDS TypeBuilds

-----------------------------------------------------------------------------
(* HelloMsg (DeadlineQoSExample), a type with a key.                       *)

HelloMsgClass == [deadlinekey |-> "ushort", payload |-> "string256"]
HelloMsgMembers == {"deadlinekey", "payload"}
HelloMsgCdr_bug == [calculated   |-> <<"deadlinekey", "payload">>,
                    serialized   |-> <<"deadlinekey", "payload">>,
                    deserialized |-> <<"deadlinekey", "payload">>,
                    key          |-> <<>>]
HelloMsgCdr == [calculated   |-> <<"deadlinekey", "payload">>,
                serialized   |-> <<"deadlinekey", "payload">>,
                deserialized |-> <<"deadlinekey", "payload">>,
                key          |-> <<"deadlinekey">>]
HelloMsgBounded == TRUE
HelloMsgPubSubType == TypeSupport("HelloMsg", 269, 2, TRUE)

HelloMsgClass1 == [deadlinekey |-> "ushort", payload |-> "string256"]
HelloMsgCopied1 == {"deadlinekey", "payload"}
HelloMsgCdr1 == [calculated   |-> <<"deadlinekey", "payload">>,
                 serialized   |-> <<"deadlinekey", "payload">>,
                 deserialized |-> <<"deadlinekey", "payload">>,
                 key          |-> <<"deadlinekey">>]
HelloMsgSet1 == {"deadlinekey", "payload"}

-----------------------------------------------------------------------------
(* sample (HistoryKind), a type with a key.                                *)

SampleClass == [index |-> "octet", key_value |-> "octet"]
SampleMembers == {"index", "key_value"}
SampleCdr == [calculated   |-> <<"index", "key_value">>,
              serialized   |-> <<"index", "key_value">>,
              deserialized |-> <<"index", "key_value">>,
              key          |-> <<"key_value">>]
SampleBounded == TRUE
SamplePubSubType == TypeSupport("sample", 6, 1, TRUE)

SampleClass1 == [index |-> "octet", key_value |-> "octet"]
SampleCopied1 == {"index", "key_value"}
SampleCdr1 == [calculated   |-> <<"index", "key_value">>,
               serialized   |-> <<"index", "key_value">>,
               deserialized |-> <<"index", "key_value">>,
               key          |-> <<"key_value">>]
SampleSet1 == {"index", "key_value"}

-----------------------------------------------------------------------------
(* Lifespan (LifespanQoSExample).                                          *)

LifespanClass == [index |-> "ulong", message |-> "string"]
LifespanMembers == {"index", "message"}
LifespanCdr == [calculated   |-> <<"index", "message">>,
                serialized   |-> <<"index", "message">>,
                deserialized |-> <<"index", "message">>,
                key          |-> <<>>]
LifespanBounded == FALSE
LifespanPubSubType == TypeSupport("Lifespan", 268, 0, FALSE)

LifespanClass1 == [index |-> "ulong", message |-> "string"]
LifespanCopied1 == {"index", "message"}
LifespanCdr1 == [calculated   |-> <<"index", "message">>,
                 serialized   |-> <<"index", "message">>,
                 deserialized |-> <<"index", "message">>,
                 key          |-> <<>>]
LifespanSet1 == {"index", "message"}

-----------------------------------------------------------------------------
(* ExampleMessage (OwnershipStrengthQoSExample).                           *)

ExampleMessageClass == [index |-> "ulong",
                        ownershipStrength |-> "ulong",
                        message |-> "string"]
ExampleMessageMembers == {"index", "ownershipStrength", "message"}
ExampleMessageCdr == [calculated   |-> <<"index", "ownershipStrength", "message">>,
                      serialized   |-> <<"index", "ownershipStrength", "message">>,
                      deserialized |-> <<"index", "ownershipStrength", "message">>,
                      key          |-> <<>>]
ExampleMessageBounded == FALSE
ExampleMessagePubSubType == TypeSupport("ExampleMessage", 272, 0, FALSE)

ExampleMessageClass1 == [index |-> "ulong",
                         ownershipStrength |-> "ulong",
                         message |-> "string"]
ExampleMessageCopied1 == {"index", "ownershipStrength", "message"}
ExampleMessageCdr1 == [calculated   |-> <<"index", "ownershipStrength", "message">>,
                       serialized   |-> <<"index", "ownershipStrength", "message">>,
                       deserialized |-> <<"index", "ownershipStrength", "message">>,
                       key          |-> <<>>]
ExampleMessageSet1 == {"index", "ownershipStrength", "message"}

-----------------------------------------------------------------------------
(* HelloWorld (DiscoveryServerExample).                                    *)

HelloWorldClass == [index |-> "ulong", message |-> "string"]
HelloWorldMembers == {"index", "message"}
HelloWorldCdr == [calculated   |-> <<"index", "message">>,
                  serialized   |-> <<"index", "message">>,
                  deserialized |-> <<"index", "message">>,
                  key          |-> <<>>]
HelloWorldBounded == FALSE
HelloWorldPubSubType == TypeSupport("HelloWorld", 268, 0, FALSE)

HelloWorldClass1 == [index |-> "ulong", message |-> "string"]
HelloWorldCopied1 == {"index", "message"}
HelloWorldCdr1 == [calculated   |-> <<"index", "message">>,
                   serialized   |-> <<"index", "message">>,
                   deserialized |-> <<"index", "message">>,
                   key          |-> <<>>]
HelloWorldSet1 == {"index", "message"}

-----------------------------------------------------------------------------
ExampleTypesTable ==
    [HelloMsg |-> Type(HelloMsgPubSubType, HelloMsgBounded,
         [fastcdr1 |-> Build(HelloMsgClass1, HelloMsgCopied1, HelloMsgSet1, HelloMsgCdr1),
          fastcdr2 |-> Build(HelloMsgClass, HelloMsgMembers, HelloMsgMembers, HelloMsgCdr)]),
     sample |-> Type(SamplePubSubType, SampleBounded,
         [fastcdr1 |-> Build(SampleClass1, SampleCopied1, SampleSet1, SampleCdr1),
          fastcdr2 |-> Build(SampleClass, SampleMembers, SampleMembers, SampleCdr)]),
     Lifespan |-> Type(LifespanPubSubType, LifespanBounded,
         [fastcdr1 |-> Build(LifespanClass1, LifespanCopied1, LifespanSet1, LifespanCdr1),
          fastcdr2 |-> Build(LifespanClass, LifespanMembers, LifespanMembers, LifespanCdr)]),
     ExampleMessage |-> Type(ExampleMessagePubSubType, ExampleMessageBounded,
         [fastcdr1 |-> Build(ExampleMessageClass1, ExampleMessageCopied1, ExampleMessageSet1, ExampleMessageCdr1),
          fastcdr2 |-> Build(ExampleMessageClass, ExampleMessageMembers, ExampleMessageMembers, ExampleMessageCdr)]),
     HelloWorld |-> Type(HelloWorldPubSubType, HelloWorldBounded,
         [fastcdr1 |-> Build(HelloWorldClass1, HelloWorldCopied1, HelloWorldSet1, HelloWorldCdr1),
          fastcdr2 |-> Build(HelloWorldClass, HelloWorldMembers, HelloWorldMembers, HelloWorldCdr)])]
=============================================================================
