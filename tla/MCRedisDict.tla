---------------------------- MODULE MCRedisDict ----------------------------
EXTENDS RedisDict

=============================================================================
