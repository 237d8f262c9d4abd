-------------------------- MODULE MCRabbitSubscriber --------------------------
EXTENDS RabbitSubscriber
=============================================================================
