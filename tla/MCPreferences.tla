---------------------------- MODULE MCPreferences ----------------------------
EXTENDS Preferences
=============================================================================
