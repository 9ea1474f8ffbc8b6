---- MODULE MCRedisStore ----
EXTENDS RedisStore
====
