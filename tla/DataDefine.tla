----------------------------- MODULE DataDefine -----------------------------
(***************************************************************************)
(* The five types of ddsQos, as fastddsgen wrote them from DataDefine.idl. *)
(* For each: its class, what its object functions go over, the lists of    *)
(* members of its four CDR functions, and its PubSubType.  ddsQos is built *)
(* against fastcdr 2 only.                                                 *)
(***************************************************************************)
EXTENDS TypeBuilds

-----------------------------------------------------------------------------
(* Target: what every QoS word but DataChunk and Grpc publishes.           *)

TargetClass == [index |-> "ulong",
                message |-> "string",
                replayFlag |-> "octet"]
TargetMembers == {"index", "message", "replayFlag"}
TargetCdr == [calculated   |-> <<"index", "message", "replayFlag">>,
              serialized   |-> <<"index", "message", "replayFlag">>,
              deserialized |-> <<"index", "message", "replayFlag">>,
              key          |-> <<>>]
TargetBounded == FALSE
TargetPubSubType == TypeSupport("Target", 269, 0, FALSE)

-----------------------------------------------------------------------------
(* Replay: the answer to a Target of the word Test.                        *)

ReplayClass == [recvFlag |-> "octet", guid |-> "string"]
ReplayMembers == {"recvFlag", "guid"}
ReplayCdr == [calculated   |-> <<"recvFlag", "guid">>,
              serialized   |-> <<"recvFlag", "guid">>,
              deserialized |-> <<"recvFlag", "guid">>,
              key          |-> <<>>]
ReplayBounded == FALSE
ReplayPubSubType == TypeSupport("Replay", 268, 0, FALSE)

-----------------------------------------------------------------------------
(* DataChunk: one piece of a file.                                         *)

DataChunkClass == [id |-> "ulonglong",
                   total_chunks |-> "ulonglong",
                   payload |-> "octets",
                   flag |-> "octet"]
DataChunkMembers == {"id", "total_chunks", "payload", "flag"}
DataChunkCdr_bug == [calculated   |-> <<"id", "total_chunks", "flag">>,
                     serialized   |-> <<"id", "total_chunks", "payload", "flag">>,
                     deserialized |-> <<"id", "total_chunks", "payload", "flag">>,
                     key          |-> <<>>]
DataChunkCdr == [calculated   |-> <<"id", "total_chunks", "payload", "flag">>,
                 serialized   |-> <<"id", "total_chunks", "payload", "flag">>,
                 deserialized |-> <<"id", "total_chunks", "payload", "flag">>,
                 key          |-> <<>>]
DataChunkBounded == FALSE
DataChunkPubSubType == TypeSupport("DataChunk", 129, 0, FALSE)

-----------------------------------------------------------------------------
(* GrpcInfo: a call.                                                       *)

GrpcInfoClass == [funName |-> "string", arg1 |-> "ulong", arg2 |-> "ulong"]
GrpcInfoMembers == {"funName", "arg1", "arg2"}
GrpcInfoCdr_bug == [calculated   |-> <<"funName", "arg1", "arg2">>,
                    serialized   |-> <<"funName", "arg1", "arg2">>,
                    deserialized |-> <<"funName", "arg2", "arg1">>,
                    key          |-> <<>>]
GrpcInfoCdr == [calculated   |-> <<"funName", "arg1", "arg2">>,
                serialized   |-> <<"funName", "arg1", "arg2">>,
                deserialized |-> <<"funName", "arg1", "arg2">>,
                key          |-> <<>>]
GrpcInfoBounded == FALSE
GrpcInfoPubSubType == TypeSupport("GrpcInfo", 272, 0, FALSE)

-----------------------------------------------------------------------------
(* GrpcReplay: its result.                                                 *)

GrpcReplayClass == [result |-> "ulong"]
GrpcReplayMembers == {"result"}
GrpcReplayCdr == [calculated   |-> <<"result">>,
                  serialized   |-> <<"result">>,
                  deserialized |-> <<"result">>,
                  key          |-> <<>>]
GrpcReplayBounded == TRUE
GrpcReplayPubSubType == TypeSupport("GrpcReplay", 8, 0, FALSE)

-----------------------------------------------------------------------------
DataDefineTypes ==
    [Target |-> Type(TargetPubSubType, TargetBounded,
         [fastcdr2 |-> Build(TargetClass, TargetMembers, TargetMembers, TargetCdr)]),
     Replay |-> Type(ReplayPubSubType, ReplayBounded,
         [fastcdr2 |-> Build(ReplayClass, ReplayMembers, ReplayMembers, ReplayCdr)]),
     DataChunk |-> Type(DataChunkPubSubType, DataChunkBounded,
         [fastcdr2 |-> Build(DataChunkClass, DataChunkMembers, DataChunkMembers, DataChunkCdr)]),
     GrpcInfo |-> Type(GrpcInfoPubSubType, GrpcInfoBounded,
         [fastcdr2 |-> Build(GrpcInfoClass, GrpcInfoMembers, GrpcInfoMembers, GrpcInfoCdr)]),
     GrpcReplay |-> Type(GrpcReplayPubSubType, GrpcReplayBounded,
         [fastcdr2 |-> Build(GrpcReplayClass, GrpcReplayMembers, GrpcReplayMembers, GrpcReplayCdr)])]
=============================================================================
