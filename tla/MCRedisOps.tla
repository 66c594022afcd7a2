------------------------------ MODULE MCRedisOps ------------------------------
(***************************************************************************)
(* Small instances of RedisOps for TLC.                                    *)
(***************************************************************************)
EXTENDS RedisOps, TLC

CONSTANTS c1, c2, k1, v1, v2, secret, wrong

Fn(op, arg) == [op |-> op, key |-> k1, arg |-> arg]

Opening ==
    { Fn("rop_connectdb_nopwd", << >>), Fn("rop_connectdb", secret),
      Fn("rop_connectdb", wrong) }

\* A list push and a command that fits no list, as one batch.
Mixed == << Command("LPUSH", k1, v1), Command("ZINCRBY", k1, v2) >>

Single ==
    { Fn("rop_selectdatabase", <<1>>), Fn("rop_selectdatabase", <<2>>),
      Fn("rop_flush_database", << >>), Fn("rop_redis_command", Command("LPUSH", k1, v1)),
      Fn("rop_hincrement_one_field", <<v1, 2>>), Fn("rop_is_key_exist", << >>),
      Fn("rop_del_key", << >>), Fn("rop_set_key_lifecycle", << >>), Fn("rop_show_keys", << >>),
      Fn("rop_list_push", v1), Fn("rop_get_list_cnt", << >>), Fn("rop_trim_list", <<0, 0>>),
      Fn("rop_range_list", <<0, -1>>), Fn("rop_zset_increment", v1),
      Fn("rop_zset_get_score", v1), Fn("rop_get_string", << >>), Fn("rop_set_string", v1),
      Fn("rop_create_or_replace_hash_table", <<<<v1, 7>>, <<v2, 8>>>>) }

Batch ==
    { Fn("rop_redis_append", Mixed), Fn("rop_hash_set_append", << <<<<v1, 1>>>>, <<<<v2, 2>>>> >>),
      Fn("rop_list_push_append", <<v1, v2>>),
      Fn("rop_zset_increment_append", <<v1, v2>>) }

\* One client connects in every way and calls any function; the other fills the
\* key with a batch, and calls again on the same connection.
MCCalls ==
    c1 :> (Opening \cup Single \cup Batch)
        @@ c2 :> { Fn("rop_connectdb_unix", secret), Fn("rop_list_push_append", <<v1, v2>>),
                   Fn("rop_set_string", v2) }

MCMaxCalls == c1 :> 2 @@ c2 :> 3
==============================================================================
