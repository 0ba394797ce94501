-------------------------- MODULE MCInferenceCascade --------------------------
(* Providers for checking InferenceCascade: the order of provider-registry.ts *)
EXTENDS InferenceCascade

CONSTANTS groq, mistral, ollama

TwoFree == <<groq, mistral>>
OneLocal == <<ollama>>
BothKeys == {groq, mistral}
===============================================================================
