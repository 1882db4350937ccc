------------------------ MODULE MCPushRegistration ------------------------
EXTENDS PushRegistration
=============================================================================
