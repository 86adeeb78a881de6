---------------------------- MODULE MCAgentCalls ----------------------------
EXTENDS AgentCalls
CONSTANTS gemma, qwen, nothing
=============================================================================
