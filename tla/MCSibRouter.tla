---------------------------- MODULE MCSibRouter ----------------------------
EXTENDS SibRouter
=============================================================================
