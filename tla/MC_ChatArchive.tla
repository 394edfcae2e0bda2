---------------------------- MODULE MC_ChatArchive ----------------------------
\* Instances of ChatArchive for TLC: two users and one acquaintance of both.
EXTENDS ChatArchive

CONSTANTS ann, bob, eve
=============================================================================
