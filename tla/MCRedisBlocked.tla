--------------------------- MODULE MCRedisBlocked ---------------------------
EXTENDS RedisBlocked

=============================================================================
