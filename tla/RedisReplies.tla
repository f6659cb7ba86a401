---------------------------- MODULE RedisReplies ----------------------------
(***************************************************************************)
(* What CRedisClient makes of the replies of Redis.  Every function of its *)
(* interface sends one command and names a fetch function for the type of  *)
(* the reply, some of them also a conversion of the result.                *)
(*                                                                         *)
(* A family lists its commands by what is read: a number, a text, the      *)
(* status OK, a list of texts, a list of pairs, or a number that means     *)
(* failure when it is 0.                                                   *)
(***************************************************************************)
EXTENDS Integers

RC_OBJ_NOT_EXIST == 3
RC_OBJ_EXIST == 2
RC_SUCCESS == 0
RC_REPLY_ERR == -2
RC_RQST_ERR == -3
RC_NO_RESOURCE == -4

Generic ==
    [number |-> {"del", "exists", "expire", "expireat", "persist", "pexpire", "pexpireat",
                 "pttl", "ttl"},
     text   |-> {"dump", "randomkey", "type"},
     ok     |-> {"rename", "renamenx", "restore"},
     texts  |-> {"keys"}, pairs |-> {}, success |-> {}]

Strings ==
    [number |-> {"append", "bitcount", "bitop", "bitpos", "decr", "decrby", "getbit",
                 "incr", "incrby", "setbit", "setrange", "strlen"},
     text   |-> {"get", "getrange", "getset", "incrbyfloat"},
     ok     |-> {"mset", "psetex", "set", "setex"},
     texts  |-> {"mget"}, pairs |-> {}, success |-> {"setnx"}]

Lists ==
    [number |-> {"linsert", "llen", "lpush", "lrem", "rpush"},
     text   |-> {"lindex", "lpop", "rpop"},
     ok     |-> {"lset", "ltrim"},
     texts  |-> {"blpop", "brpop", "lrange"}, pairs |-> {}, success |-> {"lpushx", "rpushx"}]

Sets ==
    [number |-> {"sadd", "scard", "sismember", "srem"},
     text   |-> {"spop"}, ok |-> {}, texts |-> {"smembers"}, pairs |-> {}, success |-> {}]

Hashes ==
    [number |-> {"hdel", "hexists", "hincrby", "hlen", "hset"},
     text   |-> {"hget", "hincrbyfloat"},
     ok     |-> {"hmset"},
     texts  |-> {"hkeys", "hmget", "hvals"}, pairs |-> {"hgetall"}, success |-> {"hsetnx"}]

SortedSets ==
    [number |-> {"zadd", "zcard", "zcount", "zlexcount", "zrank", "zrem", "zremrangebylex",
                 "zremrangebyrank", "zremrangebyscore", "zrevrank"},
     text   |-> {"zincrby", "zscore"}, ok |-> {},
     texts  |-> {"zrange", "zrangebylex", "zrangebyscore", "zrevrange", "zrevrangebyscore"},
     pairs  |-> {"zrange withscores"}, success |-> {}]

Read == DOMAIN Generic

Families == {Generic, Strings, Lists, Sets, Hashes, SortedSets}

\* The commands that are read so.
Reading(read) == UNION {family[read] : family \in Families}

Interface == UNION {Reading(read) : read \in Read}

ReadOf(command) == CHOOSE read \in Read : command \in Reading(read)

-----------------------------------------------------------------------------
(* Replies *)

Moved == [type |-> "error", value |-> "MOVED"]

FetchInteger(reply) ==
    CASE reply.type = "integer" -> RC_SUCCESS
      [] reply.type = "nil" -> RC_OBJ_NOT_EXIST
      [] OTHER -> RC_REPLY_ERR

FetchString(reply) ==
    IF reply.type \in {"string", "status", "nil"} THEN RC_SUCCESS ELSE RC_REPLY_ERR

FetchStringArray(reply) ==
    IF reply.type \in {"array", "nil"} THEN RC_SUCCESS ELSE RC_REPLY_ERR

FetchMap(reply) == IF reply.type = "array" THEN RC_SUCCESS ELSE RC_REPLY_ERR

\* IntResConv: the result of a reply 0 is RC_OBJ_EXIST for setnx.
IntResConv(command, result, reply) ==
    IF result # RC_SUCCESS \/ reply.value # 0 THEN result
    ELSE IF command = "setnx" THEN RC_OBJ_EXIST ELSE RC_REPLY_ERR

StuResConv(result, reply) ==
    IF result = RC_SUCCESS /\ reply.value # "OK" THEN RC_REPLY_ERR ELSE result

FetchResult(command, reply) ==
    CASE ReadOf(command) = "number" -> FetchInteger(reply)
      [] ReadOf(command) = "text" -> FetchString(reply)
      [] ReadOf(command) = "ok" -> StuResConv(FetchString(reply), reply)
      [] ReadOf(command) = "texts" -> FetchStringArray(reply)
      [] ReadOf(command) = "pairs" -> FetchMap(reply)
      [] ReadOf(command) = "success" -> IntResConv(command, FetchInteger(reply), reply)

-----------------------------------------------------------------------------
(* What Redis answers to a command that is executed without an error *)

Integer(n) == [type |-> "integer", value |-> n]
Text(type) == [type |-> type, value |-> "text"]
OK == [type |-> "status", value |-> "OK"]
Nil == [type |-> "nil", value |-> "none"]
Array == [type |-> "array", value |-> "texts"]

Replies(command) ==
    CASE command \in {"zrank", "zrevrank"} -> {Integer(0), Integer(1), Nil}
      [] command \in {"type"} -> {Text("status")}
      [] command \in {"incrbyfloat", "hincrbyfloat", "zincrby", "getrange"} -> {Text("string")}
      [] command \in {"get", "getset", "dump", "randomkey", "lindex", "lpop", "rpop",
                      "spop", "hget", "zscore"} -> {Text("string"), Nil}
      [] command \in {"set", "setex", "psetex", "mset", "hmset", "lset", "ltrim",
                      "rename", "restore"} -> {OK}
      [] command \in {"blpop", "brpop"} -> {Array, Nil}
      [] command \in {"keys", "mget", "lrange", "smembers", "hkeys", "hvals", "hmget",
                      "hgetall", "zrange", "zrangebylex", "zrangebyscore", "zrevrange",
                      "zrevrangebyscore", "zrange withscores"} -> {Array}
      [] OTHER -> {Integer(0), Integer(1)}

\* Each function fetches the type of reply its command has, and none takes a
\* success for an error; but renamenx within a node, whose reply is a number
\* and is read as a status (RedisClient.cpp:1061).
ASSUME RepliesAreUnderstood ==
    \A command \in Interface \ {"renamenx"} : \A reply \in Replies(command) :
        /\ FetchResult(command, reply) = RC_REPLY_ERR =>
              command \in Reading("success") /\ reply.value = 0
        /\ FetchResult(command, reply) = RC_OBJ_NOT_EXIST => reply = Nil
=============================================================================
