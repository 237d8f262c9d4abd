----------------------------- MODULE MCRabbitConn -----------------------------
EXTENDS RabbitConn
=============================================================================
