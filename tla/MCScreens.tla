------------------------------ MODULE MCScreens ------------------------------
EXTENDS Screens

\* Every page of the client.
AllPages == DOMAIN Screen
=============================================================================
